---- MODULE Spec2Model ----
(***************************************************************************)
(* The global hotkey engine of csstatstracker: hotkey.Handler (held-key   *)
(* set, cooldown clock, binding table, action channel) driven by the      *)
(* key events of the hook loop, by the host's UpdateBindings/Start/Stop   *)
(* calls and by the consumer loop of Tracker.StartHotkeys; the key        *)
(* translators of Linux and Windows (mapKeyToName), the display helper    *)
(* FormatHotkeys, config.Load and the score operations of the Tracker.    *)
(***************************************************************************)
EXTENDS Integers, Sequences, FiniteSets, TLC

(***************************************************************************)
(* Bounds of the model.                                                    *)
(***************************************************************************)
\* One step of the wall clock, in milliseconds.
TickMs == 50
\* Last clock tick of the general specification Spec.
MaxTicks == 3
\* Last clock tick of the saturation specification SpecSat, and the ticks
\* its clock advances at a time.
SatMaxTicks == 20
SatStep == 2
\* Last clock tick of the specification of the threads, SpecConc.
ConcMaxTicks == 2
\* the longest list of key names handed to FormatHotkeys
MaxCombo == 3

\* calls of hook.Start() in one run
MaxStarts == 3

\* the clock's last tick where the consumer loop runs
DeliverMaxTicks == 4

\* the largest game score configured
MaxScore == 3

(***************************************************************************)
(* Program constants.                                                      *)
(***************************************************************************)
\* 100*time.Millisecond of handleKeyDown, in milliseconds.
CooldownMs == 100
\* make(chan ActionType, 10)
ChanCap == 10

\* ActionType (iota)
ActionNone == 0
ActionIncrementCT == 1
ActionDecrementCT == 2
ActionIncrementT == 3
ActionDecrementT == 4
ActionReset == 5
ActionSelectCT == 6
ActionSelectT == 7
ActionSwapTeams == 8

Actions == ActionIncrementCT..ActionSwapTeams

(***************************************************************************)
(* Key names of the handler's events.  mapKeyToName (Linux) yields "a"    *)
(* for keysym 97 and "A" for keychar 65, so both spellings of one letter  *)
(* can be held at once.                                                   *)
(***************************************************************************)
Keys == {"a", "A", "LeftControl"}

NoKey == ""

(***************************************************************************)
(* Hook events (hook.Event): the kind, the raw code and the character.    *)
(***************************************************************************)
\* hook.KeyDown, hook.KeyUp and a kind the loop has no case for
Kinds == {"KeyDown", "KeyUp", "KeyHold"}

\* raw code and character: the keysyms of a and of LeftControl, which the
\* table lists, and of A, which it does not, with characters below, inside
\* and above the printable range
Codes == {<<97, 65>>, <<65507, 31>>, <<65, 65>>, <<65, 31>>, <<65, 127>>}

HookEvents ==
    {[Kind |-> k, Rawcode |-> c[1], Keychar |-> c[2]] : k \in Kinds, c \in Codes}

\* the events of the saturation specification and of that of the threads
CoreEvents ==
    {e \in HookEvents :
        /\ e.Kind # "KeyHold"
        /\ <<e.Rawcode, e.Keychar>> \in {<<97, 65>>, <<65507, 31>>, <<65, 127>>}}

\* the printable characters 32..126, each as a string (the grave accent, 96,
\* cannot be written by itself and stands as `')
Printable ==
    <<" ", "!", "\"", "#", "$", "%", "&", "'", "(", ")", "*", "+",
      ",", "-", ".", "/", "0", "1", "2", "3", "4", "5", "6", "7",
      "8", "9", ":", ";", "<", "=", ">", "?", "@", "A", "B", "C",
      "D", "E", "F", "G", "H", "I", "J", "K", "L", "M", "N", "O",
      "P", "Q", "R", "S", "T", "U", "V", "W", "X", "Y", "Z", "[",
      "\\", "]", "^", "_", "`'", "a", "b", "c", "d", "e", "f", "g",
      "h", "i", "j", "k", "l", "m", "n", "o", "p", "q", "r", "s",
      "t", "u", "v", "w", "x", "y", "z", "{", "|", "}", "~">>

\* string(rune(c)) for a printable character
Chr(c) == Printable[c - 31]

\* strings.ToUpper(string(rune(c))) for a printable character
ToUpperChr(c) == Chr(IF c >= 97 /\ c <= 122 THEN c - 32 ELSE c)

FKeys == <<"F1", "F2", "F3", "F4", "F5", "F6", "F7", "F8", "F9", "F10", "F11", "F12">>

NumpadDigits ==
    <<"Numpad1", "Numpad2", "Numpad3", "Numpad4", "Numpad5", "Numpad6", "Numpad7",
      "Numpad8", "Numpad9">>

\* the switch of mapKeyToName (Linux) over ev.Rawcode, an X11 keysym; NoKey
\* where it has no case
linuxRawcode(rawcode) ==
    CASE rawcode = 65505 -> "LeftShift"
      [] rawcode = 65506 -> "RightShift"
      [] rawcode = 65507 -> "LeftControl"
      [] rawcode = 65508 -> "RightControl"
      [] rawcode = 65513 -> "LeftAlt"
      [] rawcode = 65514 -> "RightAlt"
      [] rawcode = 65515 -> "LeftSuper"
      [] rawcode = 65516 -> "RightSuper"
      [] rawcode \in 65470..65481 -> FKeys[rawcode - 65469]
      [] rawcode = 65293 -> "Return"
      [] rawcode = 65288 -> "Backspace"
      [] rawcode = 65289 -> "Tab"
      [] rawcode = 32 -> "Space"
      [] rawcode = 65307 -> "Escape"
      [] rawcode \in 65457..65465 -> NumpadDigits[rawcode - 65456]
      [] rawcode = 65456 -> "Numpad0"
      [] rawcode = 65454 -> "NumpadDecimal"
      [] rawcode = 65451 -> "NumpadAdd"
      [] rawcode = 65453 -> "NumpadSubtract"
      [] rawcode = 65450 -> "NumpadMultiply"
      [] rawcode = 65455 -> "NumpadDivide"
      [] rawcode = 65421 -> "NumpadEnter"
      [] rawcode = 45 -> "-"
      [] rawcode = 61 -> "="
      [] rawcode = 43 -> "="
      [] rawcode = 95 -> "-"
      [] rawcode \in 97..122 -> Chr(rawcode)   \* "a" .. "z"
      [] OTHER -> NoKey

\* mapKeyToName (Linux): the table of raw codes, then the printable character
mapKeyToName(e) ==
    IF linuxRawcode(e.Rawcode) # NoKey THEN linuxRawcode(e.Rawcode)
    ELSE IF e.Keychar >= 32 /\ e.Keychar <= 126 THEN Chr(e.Keychar)
    ELSE NoKey

\* mapRawcode (Windows) over a virtual-key code
mapRawcode(rawcode) ==
    CASE rawcode = 160 -> "LeftShift"
      [] rawcode = 161 -> "RightShift"
      [] rawcode = 162 -> "LeftControl"
      [] rawcode = 163 -> "RightControl"
      [] rawcode = 164 -> "LeftAlt"
      [] rawcode = 165 -> "RightAlt"
      [] rawcode = 91 -> "LeftSuper"
      [] rawcode = 92 -> "RightSuper"
      [] rawcode \in 112..123 -> FKeys[rawcode - 111]
      [] rawcode = 13 -> "Return"
      [] rawcode = 8 -> "Backspace"
      [] rawcode = 9 -> "Tab"
      [] rawcode = 32 -> "Space"
      [] rawcode = 27 -> "Escape"
      [] rawcode \in 97..105 -> Chr(rawcode - 48)   \* numpad 1..9: "1" .. "9"
      [] rawcode = 96 -> "0"
      [] rawcode = 110 -> "."
      [] rawcode = 107 -> "+"
      [] rawcode = 109 -> "-"
      [] rawcode = 106 -> "*"
      [] rawcode = 111 -> "/"
      [] rawcode = 189 -> "-"
      [] rawcode = 187 -> "="
      [] rawcode \in 65..90 -> Chr(rawcode)   \* "A" .. "Z"
      [] rawcode \in 48..57 -> Chr(rawcode)   \* "0" .. "9"
      [] OTHER -> NoKey

\* mapKeyToName (Windows): mapRawcode, then the printable character in upper case
mapKeyToNameWindows(e) ==
    IF mapRawcode(e.Rawcode) # NoKey THEN mapRawcode(e.Rawcode)
    ELSE IF e.Keychar >= 32 /\ e.Keychar <= 126 THEN ToUpperChr(e.Keychar)
    ELSE NoKey

\* strings.ToLower on the names in use
ToLower(s) ==
    CASE s = "A" -> "a"
      [] s = "LeftControl" -> "leftcontrol"
      [] s = "LEFTCONTROL" -> "leftcontrol"
      [] OTHER -> s

(***************************************************************************)
(* Binding tables (hotkey.Bindings): one list of key names per action.    *)
(***************************************************************************)
NoBindings ==
    [IncrementCT |-> <<>>, DecrementCT |-> <<>>, IncrementT |-> <<>>,
     DecrementT |-> <<>>, Reset |-> <<>>, SelectCT |-> <<>>,
     SelectT |-> <<>>, SwapTeams |-> <<>>]

\* one single-key and one two-key combination
TablePlain ==
    [NoBindings EXCEPT !.IncrementCT = <<"a">>,
                       !.SelectCT = <<"LeftControl", "a">>]

\* the same two actions rebound, the letter spelled in upper case
TableRebound ==
    [NoBindings EXCEPT !.IncrementCT = <<"LeftControl">>,
                       !.SelectCT = <<"A">>]

\* pairs of actions configured to the same key set
TableSame ==
    [NoBindings EXCEPT !.DecrementCT = <<"LeftControl", "a">>,
                       !.SwapTeams = <<"a", "LeftControl">>,
                       !.IncrementT = <<"a">>,
                       !.Reset = <<"A">>]

\* lists naming one key twice (exactly, or up to case)
TableDup ==
    [NoBindings EXCEPT !.IncrementCT = <<"a", "a">>,
                       !.SelectT = <<"LeftControl", "leftcontrol">>]

\* a name no translator yields and a name in another case than the translator's
TableOdd ==
    [NoBindings EXCEPT !.Reset = <<"NoSuchKey">>,
                       !.SwapTeams = <<"LEFTCONTROL", "a">>]

\* the nil *Bindings
NilBindings == [nil |-> TRUE]

\* the values of the parameter of NewHandler and UpdateBindings, nil among them
PointerTables == {NilBindings, TableOdd, TableDup}

\* the tables a handler is created with and the host passes to UpdateBindings
BindingTables == {NoBindings, TablePlain, TableRebound, TableSame, TableDup}

\* the tables of the specification of the threads
ConcTables == {TablePlain, TableRebound}

\* the table of the saturation specification
SatTable ==
    [NoBindings EXCEPT !.IncrementCT = <<"a">>,
                       !.Reset = <<"LeftControl">>]

\* a table of two actions with a two-key combination, for the saturation
\* of the queue
CoolTable == TablePlain

VARIABLES
    bindings,        \* Handler.bindings
    pressedKeys,     \* Handler.pressedKeys: the names mapped to true
    lastActionTime,  \* Handler.lastActionTime, in ticks; ZeroTime before any action
    hookRunning,     \* Handler.hookRunning
    actionChan,      \* Handler.actionChan: the buffered actions, oldest first
    now,             \* the wall clock, in ticks
    ev,              \* the operation last run: its name, its key, the action it matched
    emitted,         \* history: the clock at the last send attempt; ZeroTime before any
    placed,          \* history: the clock when an action was last put on the channel
    update,          \* history: the last UpdateBindings call, the table it found
                     \* (old) and the table the host passed (new)
    hooks,           \* the OS hooks installed by hook.Start() and not ended
    loops,           \* the goroutines of Start ranging over an open hook channel
    keysMutex,       \* Handler.keysMutex: its holder, or "free"
    pcLoop,          \* where the event loop is: "range", "lock", "body", "unlock"
    cur,             \* the event the loop took last
    pcHost,          \* where the host thread is: "idle" or inside a call
    arg,             \* the table of the host's UpdateBindings call in progress
    applied,         \* history: the events taken so far applied one after another
    keysDown,        \* the physical keys that are down
    call,            \* a translator or formatter call by itself: input and result
    pcCall,          \* where each caller of Start and Stop is: "idle" or inside a call
    starts,          \* history: the calls of hook.Start() so far
    ctWins,          \* Tracker.ctWins
    tWins,           \* Tracker.tWins
    team,            \* Tracker.team
    gameScore,       \* the number in Tracker.maxEntry.Text; 0 for a text that is none
    save,            \* the SaveGame call of the tracker operation last run, if any
    pcCons,          \* where the consumer loop of StartHotkeys is: "range", "switch"
    got,             \* the action the consumer loop took last
    sent,            \* history: the actions put on the channel, in order
    done             \* history: the tracker operations the consumer ran, in order

\* the state of the threads, untouched where calls run as one step
conc == <<keysMutex, pcLoop, cur, pcHost, arg, applied>>

\* the callers of Start and Stop where the calls run step by step
app == <<pcCall, starts>>

\* the tracker
trk == <<ctWins, tWins, team, gameScore, save>>

\* the consumer loop and the histories of the channel's two ends
cons == <<pcCons, got, sent, done>>

\* the keyboard and the calls made beside the handler
env == <<keysDown, call, app, trk, cons>>

\* the handler, the clock and the histories of its calls
state == <<bindings, pressedKeys, lastActionTime, hookRunning, hooks, loops, actionChan,
           now, emitted, placed, update>>

vars == <<bindings, pressedKeys, lastActionTime, hookRunning, actionChan, now, ev,
          emitted, placed, update, hooks, loops, conc, env>>

\* the zero time.Time of a new Handler
ZeroTime == -1

Event(op, key, action) == [op |-> op, key |-> key, action |-> action]

(***************************************************************************)
(* Handler.matchesCombo                                                    *)
(***************************************************************************)
\* mutant: the length comparison left out (a subset test)
matchesComboSubset(comboKeys, pressed) ==
    \A i \in 1..Len(comboKeys) :
       \E pressedKey \in pressed : ToLower(pressedKey) = ToLower(comboKeys[i])

matchesCombo(comboKeys, pressed) ==
    /\ \A i \in 1..Len(comboKeys) :
          \E pressedKey \in pressed : ToLower(pressedKey) = ToLower(comboKeys[i])
    /\ Cardinality(pressed) = Len(comboKeys)

\* the field of the table that belongs to an action
BindingOf(b, action) ==
    CASE action = ActionIncrementCT -> b.IncrementCT
      [] action = ActionDecrementCT -> b.DecrementCT
      [] action = ActionIncrementT -> b.IncrementT
      [] action = ActionDecrementT -> b.DecrementT
      [] action = ActionReset -> b.Reset
      [] action = ActionSelectCT -> b.SelectCT
      [] action = ActionSelectT -> b.SelectT
      [] action = ActionSwapTeams -> b.SwapTeams

\* mutant: reset tested before the increments and decrements
MatchActionResetFirst(b, pressed) ==
    IF matchesCombo(b.Reset, pressed) THEN ActionReset
    ELSE IF matchesCombo(b.IncrementCT, pressed) THEN ActionIncrementCT
    ELSE IF matchesCombo(b.DecrementCT, pressed) THEN ActionDecrementCT
    ELSE IF matchesCombo(b.IncrementT, pressed) THEN ActionIncrementT
    ELSE IF matchesCombo(b.DecrementT, pressed) THEN ActionDecrementT
    ELSE IF matchesCombo(b.SelectCT, pressed) THEN ActionSelectCT
    ELSE IF matchesCombo(b.SelectT, pressed) THEN ActionSelectT
    ELSE IF matchesCombo(b.SwapTeams, pressed) THEN ActionSwapTeams
    ELSE ActionNone

\* the if / else-if chain of handleKeyDown
MatchAction(b, pressed) ==
    IF matchesCombo(b.IncrementCT, pressed) THEN ActionIncrementCT
    ELSE IF matchesCombo(b.DecrementCT, pressed) THEN ActionDecrementCT
    ELSE IF matchesCombo(b.IncrementT, pressed) THEN ActionIncrementT
    ELSE IF matchesCombo(b.DecrementT, pressed) THEN ActionDecrementT
    ELSE IF matchesCombo(b.Reset, pressed) THEN ActionReset
    ELSE IF matchesCombo(b.SelectCT, pressed) THEN ActionSelectCT
    ELSE IF matchesCombo(b.SelectT, pressed) THEN ActionSelectT
    ELSE IF matchesCombo(b.SwapTeams, pressed) THEN ActionSwapTeams
    ELSE ActionNone

\* time.Since(t) in milliseconds; the zero time lies centuries back
Since(t) == IF t = ZeroTime THEN CooldownMs + (now + 1) * TickMs ELSE (now - t) * TickMs

\* mutant: the cooldown check left out
InCooldownNever == FALSE

\* time.Since(h.lastActionTime) < 100*time.Millisecond
InCooldown == Since(lastActionTime) < CooldownMs

\* mutant: a full channel gives up its oldest action for the new one
TrySendDropOldest(chan, action) ==
    IF Len(chan) < ChanCap THEN Append(chan, action) ELSE Append(Tail(chan), action)

\* select { case h.actionChan <- action: default: }
TrySend(chan, action) ==
    IF Len(chan) < ChanCap THEN Append(chan, action) ELSE chan

(***************************************************************************)
(* NewHandler                                                              *)
(***************************************************************************)
NewHandler(b) ==
    /\ bindings = b
    /\ pressedKeys = {}
    /\ lastActionTime = ZeroTime
    /\ hookRunning = FALSE
    /\ actionChan = <<>>
    /\ now = 0
    /\ ev = Event("NewHandler", NoKey, ActionNone)
    /\ emitted = ZeroTime
    /\ placed = ZeroTime
    /\ update = [old |-> b, new |-> b]
    /\ hooks = 0
    /\ loops = 0
    /\ keysMutex = "free"
    /\ pcLoop = "range"
    /\ cur = [Kind |-> "KeyHold", Rawcode |-> 65, Keychar |-> 31]  \* none taken yet
    /\ pcHost = "idle"
    /\ arg = NoBindings
    /\ applied = {}

\* no key is down and no call has been made
NoCall == [in |-> <<>>, out |-> <<>>]

\* the threads that call Start and Stop
Threads == {1, 2}

\* database.Team
TeamNone == ""

TeamCT == "CT"

TeamT == "T"

\* config.Default().GameScore
DefaultGameScore == 8

\* tracker.New with cfg.GameScore = G: maxEntry.Text = strconv.Itoa(G)
New(G) ==
    /\ ctWins = 0
    /\ tWins = 0
    /\ team = TeamNone
    /\ gameScore = G
    /\ save = <<>>

\* no thread is inside a call and the consumer loop waits
NoCaller ==
    /\ pcCall = [t \in Threads |-> "idle"]
    /\ starts = 0
    /\ pcCons = "range"
    /\ got = ActionNone
    /\ sent = <<>>
    /\ done = <<>>

\* the same, the tracker new with the default configuration
Waiting == NoCaller /\ New(DefaultGameScore)

Idle == keysDown = {} /\ call = NoCall /\ Waiting

Init == \E b \in BindingTables : NewHandler(b) /\ Idle

InitSat == NewHandler(SatTable) /\ Idle

(***************************************************************************)
(* Handler.UpdateBindings                                                  *)
(***************************************************************************)
\* mutant: the held keys flushed with the table
UpdateBindingsFlush(b) ==
    /\ bindings' = b
    /\ pressedKeys' = {}
    /\ update' = [old |-> bindings, new |-> b]
    /\ ev' = Event("UpdateBindings", NoKey, ActionNone)
    /\ UNCHANGED <<lastActionTime, hookRunning, hooks, loops, actionChan, now, emitted, placed>>

\* mutant: the new table dropped, the old one kept
UpdateBindingsIgnored(b) ==
    /\ update' = [old |-> bindings, new |-> b]
    /\ ev' = Event("UpdateBindings", NoKey, ActionNone)
    /\ UNCHANGED <<bindings, pressedKeys, lastActionTime, hookRunning, hooks, loops,
                   actionChan, now, emitted, placed>>

UpdateBindings(b) ==
    /\ bindings' = b
    /\ update' = [old |-> bindings, new |-> b]
    /\ ev' = Event("UpdateBindings", NoKey, ActionNone)
    /\ UNCHANGED <<pressedKeys, lastActionTime, hookRunning, hooks, loops, actionChan, now,
                   emitted, placed>>

(***************************************************************************)
(* Handler.Start, Handler.Stop                                             *)
(***************************************************************************)
\* mutant: the hookRunning check left out
StartAgain ==
    /\ hookRunning' = TRUE
    /\ hooks' = hooks + 1
    /\ loops' = loops + 1
    /\ ev' = Event("Start", NoKey, ActionNone)
    /\ UNCHANGED <<bindings, pressedKeys, lastActionTime, actionChan, now,
                   emitted, placed, update>>

Start ==
    /\ hookRunning' = (IF hookRunning THEN hookRunning ELSE TRUE)
    /\ hooks' = (IF hookRunning THEN hooks ELSE hooks + 1)
    /\ loops' = (IF hookRunning THEN loops ELSE loops + 1)
    /\ ev' = Event("Start", NoKey, ActionNone)
    /\ UNCHANGED <<bindings, pressedKeys, lastActionTime, actionChan, now,
                   emitted, placed, update>>

\* mutant: Stop empties the action channel
StopDrain ==
    /\ hookRunning' = (IF hookRunning THEN FALSE ELSE hookRunning)
    /\ hooks' = (IF hookRunning THEN 0 ELSE hooks)
    /\ loops' = (IF hookRunning THEN 0 ELSE loops)
    /\ actionChan' = <<>>
    /\ ev' = Event("Stop", NoKey, ActionNone)
    /\ UNCHANGED <<bindings, pressedKeys, lastActionTime, now, emitted, placed, update>>

\* Start where the OS installs no hook: hook.Start() has no error result and
\* hands back its channel all the same, which then never delivers an event
StartRefused ==
    /\ hookRunning' = (IF hookRunning THEN hookRunning ELSE TRUE)
    /\ hooks' = hooks
    /\ loops' = (IF hookRunning THEN loops ELSE loops + 1)
    /\ ev' = Event("Start", NoKey, ActionNone)
    /\ UNCHANGED <<bindings, pressedKeys, lastActionTime, actionChan, now,
                   emitted, placed, update>>

Stop ==
    /\ hookRunning' = (IF hookRunning THEN FALSE ELSE hookRunning)
    /\ hooks' = (IF hookRunning THEN 0 ELSE hooks)
    /\ loops' = (IF hookRunning THEN 0 ELSE loops)
    /\ ev' = Event("Stop", NoKey, ActionNone)
    /\ UNCHANGED <<bindings, pressedKeys, lastActionTime, actionChan, now,
                   emitted, placed, update>>

(***************************************************************************)
(* Handler.handleKeyDown, called by the hook loop for a key-down event    *)
(***************************************************************************)
\* mutant: the repeat check left out
AlreadyPressedNever(keyName) == FALSE

\* h.pressedKeys[keyName]
AlreadyPressed(keyName) == keyName \in pressedKeys

\* mutant: the cooldown checked before the key is recorded as held
handleKeyDownCooldownFirst(keyName) ==
    /\ IF AlreadyPressed(keyName) \/ InCooldown
       THEN /\ ev' = Event("KeyDown", keyName, ActionNone)
            /\ UNCHANGED <<pressedKeys, lastActionTime, actionChan, emitted, placed>>
       ELSE /\ pressedKeys' = pressedKeys \cup {keyName}
            /\ LET action == MatchAction(bindings, pressedKeys \cup {keyName})
               IN  /\ ev' = Event("KeyDown", keyName, action)
                   /\ IF action # ActionNone
                      THEN /\ lastActionTime' = now
                           /\ actionChan' = TrySend(actionChan, action)
                           /\ emitted' = now
                           /\ placed' = (IF Len(actionChan) < ChanCap THEN now ELSE placed)
                      ELSE UNCHANGED <<lastActionTime, actionChan, emitted, placed>>
    /\ UNCHANGED <<bindings, hookRunning, hooks, loops, now, update>>

\* mutant: the send waits for room in the channel
handleKeyDownBlockingSend(keyName) ==
    /\ IF AlreadyPressed(keyName)
       THEN /\ ev' = Event("KeyDown", keyName, ActionNone)
            /\ UNCHANGED <<pressedKeys, lastActionTime, actionChan, emitted, placed>>
       ELSE /\ pressedKeys' = pressedKeys \cup {keyName}
            /\ IF InCooldown
               THEN /\ ev' = Event("KeyDown", keyName, ActionNone)
                    /\ UNCHANGED <<lastActionTime, actionChan, emitted, placed>>
               ELSE LET action == MatchAction(bindings, pressedKeys \cup {keyName})
                    IN  /\ ev' = Event("KeyDown", keyName, action)
                        /\ IF action # ActionNone
                           THEN /\ lastActionTime' = now
                                /\ Len(actionChan) < ChanCap
                                /\ actionChan' = Append(actionChan, action)
                                /\ emitted' = now
                                /\ placed' = (IF Len(actionChan) < ChanCap THEN now ELSE placed)
                           ELSE UNCHANGED <<lastActionTime, actionChan, emitted, placed>>
    /\ UNCHANGED <<bindings, hookRunning, hooks, loops, now, update>>

\* mutant: a key-down that matches nothing starts the cooldown
handleKeyDownUnmatchedExtends(keyName) ==
    /\ IF AlreadyPressed(keyName)
       THEN /\ ev' = Event("KeyDown", keyName, ActionNone)
            /\ UNCHANGED <<pressedKeys, lastActionTime, actionChan, emitted, placed>>
       ELSE /\ pressedKeys' = pressedKeys \cup {keyName}
            /\ IF InCooldown
               THEN /\ ev' = Event("KeyDown", keyName, ActionNone)
                    /\ UNCHANGED <<lastActionTime, actionChan, emitted, placed>>
               ELSE LET action == MatchAction(bindings, pressedKeys \cup {keyName})
                    IN  /\ ev' = Event("KeyDown", keyName, action)
                        /\ lastActionTime' = now
                        /\ IF action # ActionNone
                           THEN /\ actionChan' = TrySend(actionChan, action)
                                /\ emitted' = now
                                /\ placed' =
                                       (IF Len(actionChan) < ChanCap THEN now ELSE placed)
                           ELSE UNCHANGED <<actionChan, emitted, placed>>
    /\ UNCHANGED <<bindings, hookRunning, hooks, loops, now, update>>

\* mutant: the cooldown clock set only when the channel takes the action
handleKeyDownClockOnSend(keyName) ==
    /\ IF AlreadyPressed(keyName)
       THEN /\ ev' = Event("KeyDown", keyName, ActionNone)
            /\ UNCHANGED <<pressedKeys, lastActionTime, actionChan, emitted, placed>>
       ELSE /\ pressedKeys' = pressedKeys \cup {keyName}
            /\ IF InCooldown
               THEN /\ ev' = Event("KeyDown", keyName, ActionNone)
                    /\ UNCHANGED <<lastActionTime, actionChan, emitted, placed>>
               ELSE LET action == MatchAction(bindings, pressedKeys \cup {keyName})
                    IN  /\ ev' = Event("KeyDown", keyName, action)
                        /\ IF action # ActionNone
                           THEN /\ lastActionTime' =
                                       (IF Len(actionChan) < ChanCap THEN now
                                        ELSE lastActionTime)
                                /\ actionChan' = TrySend(actionChan, action)
                                /\ emitted' = now
                                /\ placed' = (IF Len(actionChan) < ChanCap THEN now ELSE placed)
                           ELSE UNCHANGED <<lastActionTime, actionChan, emitted, placed>>
    /\ UNCHANGED <<bindings, hookRunning, hooks, loops, now, update>>

\* mutant: the action sent whether or not a binding matched
handleKeyDownSendNone(keyName) ==
    /\ IF AlreadyPressed(keyName)
       THEN /\ ev' = Event("KeyDown", keyName, ActionNone)
            /\ UNCHANGED <<pressedKeys, lastActionTime, actionChan, emitted, placed>>
       ELSE /\ pressedKeys' = pressedKeys \cup {keyName}
            /\ IF InCooldown
               THEN /\ ev' = Event("KeyDown", keyName, ActionNone)
                    /\ UNCHANGED <<lastActionTime, actionChan, emitted, placed>>
               ELSE LET action == MatchAction(bindings, pressedKeys \cup {keyName})
                    IN  /\ ev' = Event("KeyDown", keyName, action)
                        /\ lastActionTime' = now
                        /\ actionChan' = TrySend(actionChan, action)
                        /\ emitted' = now
                        /\ placed' = (IF Len(actionChan) < ChanCap THEN now ELSE placed)
    /\ UNCHANGED <<bindings, hookRunning, hooks, loops, now, update>>

\* h.bindings.IncrementCT, the first field read through the pointer, panics on
\* a nil table: the goroutine of Start dies with the key recorded as held
handleKeyDown(keyName) ==
    /\ IF AlreadyPressed(keyName)
       THEN /\ ev' = Event("KeyDown", keyName, ActionNone)
            /\ UNCHANGED <<pressedKeys, lastActionTime, actionChan, emitted, placed>>
       ELSE /\ pressedKeys' = pressedKeys \cup {keyName}
            /\ IF InCooldown
               THEN /\ ev' = Event("KeyDown", keyName, ActionNone)
                    /\ UNCHANGED <<lastActionTime, actionChan, emitted, placed>>
               ELSE IF bindings = NilBindings
               THEN /\ ev' = Event("Panic", keyName, ActionNone)
                    /\ UNCHANGED <<lastActionTime, actionChan, emitted, placed>>
               ELSE LET action == MatchAction(bindings, pressedKeys \cup {keyName})
                    IN  /\ ev' = Event("KeyDown", keyName, action)
                        /\ IF action # ActionNone
                           THEN /\ lastActionTime' = now
                                /\ actionChan' = TrySend(actionChan, action)
                                /\ emitted' = now
                                /\ placed' = (IF Len(actionChan) < ChanCap THEN now ELSE placed)
                           ELSE UNCHANGED <<lastActionTime, actionChan, emitted, placed>>
    /\ UNCHANGED <<bindings, hookRunning, hooks, loops, now, update>>

(***************************************************************************)
(* Handler.handleKeyUp, called by the hook loop for a key-up event        *)
(***************************************************************************)
\* mutant: the release evaluated against the bindings like a press
handleKeyUpRematch(keyName) ==
    /\ pressedKeys' = pressedKeys \ {keyName}
    /\ LET action == IF InCooldown THEN ActionNone
                      ELSE MatchAction(bindings, pressedKeys \ {keyName})
       IN  /\ ev' = Event("KeyUp", keyName, action)
           /\ IF action # ActionNone
              THEN /\ lastActionTime' = now
                   /\ actionChan' = TrySend(actionChan, action)
                   /\ emitted' = now
                   /\ placed' = (IF Len(actionChan) < ChanCap THEN now ELSE placed)
              ELSE UNCHANGED <<lastActionTime, actionChan, emitted, placed>>
    /\ UNCHANGED <<bindings, hookRunning, hooks, loops, now, update>>

\* mutant: the release removes every held name equal to it up to case
handleKeyUpAnyCase(keyName) ==
    /\ pressedKeys' = {p \in pressedKeys : ToLower(p) # ToLower(keyName)}
    /\ ev' = Event("KeyUp", keyName, ActionNone)
    /\ UNCHANGED <<bindings, lastActionTime, hookRunning, hooks, loops, actionChan, now,
                   emitted, placed, update>>

handleKeyUp(keyName) ==
    /\ pressedKeys' = pressedKeys \ {keyName}
    /\ ev' = Event("KeyUp", keyName, ActionNone)
    /\ UNCHANGED <<bindings, lastActionTime, hookRunning, hooks, loops, actionChan, now,
                   emitted, placed, update>>

(***************************************************************************)
(* The consumer loop of Tracker.StartHotkeys: one receive                 *)
(***************************************************************************)
\* mutant: the consumer handed the newest action of the channel
ReceiveNewest ==
    /\ actionChan # <<>>
    /\ actionChan' = SubSeq(actionChan, 1, Len(actionChan) - 1)
    /\ ev' = Event("Receive", NoKey, actionChan[Len(actionChan)])
    /\ UNCHANGED <<bindings, pressedKeys, lastActionTime, hookRunning, hooks, loops, now,
                   emitted, placed, update, conc, env>>

Receive ==
    /\ actionChan # <<>>
    /\ actionChan' = Tail(actionChan)
    /\ ev' = Event("Receive", NoKey, Head(actionChan))
    /\ UNCHANGED <<bindings, pressedKeys, lastActionTime, hookRunning, hooks, loops, now,
                   emitted, placed, update, conc, env>>

(***************************************************************************)
(* The wall clock                                                          *)
(***************************************************************************)
Advance(step, limit) ==
    /\ now + step <= limit
    /\ now' = now + step
    /\ ev' = Event("Tick", NoKey, ActionNone)
    /\ UNCHANGED <<bindings, pressedKeys, lastActionTime, hookRunning, hooks, loops,
                   actionChan, emitted, placed, update, conc, env>>

Tick == Advance(1, MaxTicks)

TickSat == Advance(SatStep, SatMaxTicks)

\* the held set after event e, processed by itself on held set H
ApplyEvent(H, e) ==
    IF mapKeyToName(e) = NoKey THEN H
    ELSE IF e.Kind = "KeyDown" THEN H \cup {mapKeyToName(e)}
    ELSE IF e.Kind = "KeyUp" THEN H \ {mapKeyToName(e)}
    ELSE H

(***************************************************************************)
(* The goroutine of Handler.Start: one turn of its loop over the hook     *)
(* channel, for event e                                                    *)
(***************************************************************************)
\* the turn ends with nothing done: continue ("Unmapped"), or no case of
\* the switch ("NoCase")
Skip(op) ==
    /\ ev' = Event(op, NoKey, ActionNone)
    /\ UNCHANGED <<bindings, pressedKeys, lastActionTime, hookRunning, hooks, loops,
                   actionChan, now, emitted, placed, update>>

\* mutant: the test for the empty name left out
LoopBodyNoSkip(e) ==
    LET keyName == mapKeyToName(e)
    IN  CASE e.Kind = "KeyDown" -> handleKeyDown(keyName)
          [] e.Kind = "KeyUp" -> handleKeyUp(keyName)
          [] OTHER -> Skip("NoCase")

LoopBody(e) ==
    LET keyName == mapKeyToName(e)
    IN  IF keyName = NoKey
        THEN Skip("Unmapped")
        ELSE CASE e.Kind = "KeyDown" -> handleKeyDown(keyName)
               [] e.Kind = "KeyUp" -> handleKeyUp(keyName)
               [] OTHER -> Skip("NoCase")

\* the hook hands over events while it is installed
HookLoop(e) == hookRunning /\ LoopBody(e)

(***************************************************************************)
(* The specifications whose calls run one at a time, each as one step     *)
(***************************************************************************)
Hook == \E e \in HookEvents : HookLoop(e) /\ UNCHANGED <<conc, env>>

HookSat == \E e \in CoreEvents : HookLoop(e) /\ UNCHANGED <<conc, env>>

Update == \E b \in BindingTables : UpdateBindings(b) /\ UNCHANGED <<conc, env>>

CallStart == Start /\ UNCHANGED <<conc, env>>

CallStop == Stop /\ UNCHANGED <<conc, env>>

Next == Hook \/ Update \/ CallStart \/ CallStop \/ Receive \/ Tick

Spec == Init /\ [][Next]_vars

\* the handler given any *Bindings; a panic of the goroutine ends the program
Running == ev.op # "Panic"

InitNil == \E b \in PointerTables : NewHandler(b) /\ Idle

HookNil == Running /\ \E e \in CoreEvents : HookLoop(e) /\ UNCHANGED <<conc, env>>

UpdateNil ==
    Running /\ \E b \in PointerTables : UpdateBindings(b) /\ UNCHANGED <<conc, env>>

StartNil == Running /\ Start /\ UNCHANGED <<conc, env>>

ReceiveNil == Running /\ Receive

TickNil == Running /\ Tick

NextNil == HookNil \/ UpdateNil \/ StartNil \/ ReceiveNil \/ TickNil

SpecNil == InitNil /\ [][NextNil]_vars

(***************************************************************************)
(* The handler on a system that may refuse the hook                        *)
(***************************************************************************)
InitHook == NewHandler(TablePlain) /\ Idle

CallStartRefused == StartRefused /\ UNCHANGED <<conc, env>>

\* events come from an installed hook only
HookInstalled ==
    hooks > 0 /\ \E e \in CoreEvents : HookLoop(e) /\ UNCHANGED <<conc, env>>

NextHook ==
    CallStart \/ CallStartRefused \/ CallStop \/ HookInstalled \/ Receive \/ Tick

SpecHook == InitHook /\ [][NextHook]_vars

(***************************************************************************)
(* Handler.Start and Handler.Stop step by step, called from several        *)
(* threads: neither takes a lock, so the steps of two calls interleave     *)
(***************************************************************************)
Goto(t, pc) == pcCall' = [pcCall EXCEPT ![t] = pc]

\* what no step of Start or Stop touches
LifeFrame ==
    UNCHANGED <<bindings, pressedKeys, lastActionTime, actionChan, now, emitted, placed,
                update, conc, keysDown, call, trk, cons>>

\* Start: if h.hookRunning { return }
StartTest(t) ==
    /\ pcCall[t] = "idle"
    /\ starts < MaxStarts
    /\ Goto(t, IF hookRunning THEN "idle" ELSE "start_hook")
    /\ ev' = Event("Start.test", NoKey, ActionNone)
    /\ UNCHANGED <<hookRunning, hooks, loops, starts>>
    /\ LifeFrame

\* Start: h.hookChan = hook.Start()
StartHook(t) ==
    /\ pcCall[t] = "start_hook"
    /\ hooks' = hooks + 1
    /\ starts' = starts + 1
    /\ Goto(t, "start_flag")
    /\ ev' = Event("Start.hook", NoKey, ActionNone)
    /\ UNCHANGED <<hookRunning, loops>>
    /\ LifeFrame

\* Start: h.hookRunning = true
StartFlag(t) ==
    /\ pcCall[t] = "start_flag"
    /\ hookRunning' = TRUE
    /\ Goto(t, "start_go")
    /\ ev' = Event("Start.flag", NoKey, ActionNone)
    /\ UNCHANGED <<hooks, loops, starts>>
    /\ LifeFrame

\* Start: go func() { for ev := range h.hookChan ... }()
StartGo(t) ==
    /\ pcCall[t] = "start_go"
    /\ loops' = loops + 1
    /\ Goto(t, "idle")
    /\ ev' = Event("Start.go", NoKey, ActionNone)
    /\ UNCHANGED <<hookRunning, hooks, starts>>
    /\ LifeFrame

\* Stop: if h.hookRunning
StopTest(t) ==
    /\ pcCall[t] = "idle"
    /\ Goto(t, IF hookRunning THEN "stop_end" ELSE "idle")
    /\ ev' = Event("Stop.test", NoKey, ActionNone)
    /\ UNCHANGED <<hookRunning, hooks, loops, starts>>
    /\ LifeFrame

\* mutant: the loops keep running when the hook ends
StopEndLeak(t) ==
    /\ pcCall[t] = "stop_end"
    /\ hooks' = 0
    /\ Goto(t, "stop_flag")
    /\ ev' = Event("Stop.end", NoKey, ActionNone)
    /\ UNCHANGED <<hookRunning, loops, starts>>
    /\ LifeFrame

\* Stop: hook.End(), which closes the hook channel and so ends the loops
StopEnd(t) ==
    /\ pcCall[t] = "stop_end"
    /\ hooks' = 0
    /\ loops' = 0
    /\ Goto(t, "stop_flag")
    /\ ev' = Event("Stop.end", NoKey, ActionNone)
    /\ UNCHANGED <<hookRunning, starts>>
    /\ LifeFrame

\* Stop: h.hookRunning = false
StopFlag(t) ==
    /\ pcCall[t] = "stop_flag"
    /\ hookRunning' = FALSE
    /\ Goto(t, "idle")
    /\ ev' = Event("Stop.flag", NoKey, ActionNone)
    /\ UNCHANGED <<hooks, loops, starts>>
    /\ LifeFrame

InitLife == NewHandler(TablePlain) /\ Idle

\* calls from every thread
NextLife ==
    \/ \E t \in Threads : StartTest(t)
    \/ \E t \in Threads : StartHook(t)
    \/ \E t \in Threads : StartFlag(t)
    \/ \E t \in Threads : StartGo(t)
    \/ \E t \in Threads : StopTest(t)
    \/ \E t \in Threads : StopEnd(t)
    \/ \E t \in Threads : StopFlag(t)
    \/ HookInstalled
    \/ Receive

SpecLife == InitLife /\ [][NextLife]_vars

\* calls from one thread, one after another
NextSeq ==
    \/ StartTest(1)
    \/ StartHook(1)
    \/ StartFlag(1)
    \/ StartGo(1)
    \/ StopTest(1)
    \/ StopEnd(1)
    \/ StopFlag(1)
    \/ HookInstalled
    \/ Receive

SpecSeq == InitLife /\ [][NextSeq]_vars

(***************************************************************************)
(* config.Load by itself, on each platform; of the configuration only the  *)
(* hotkeys are kept                                                        *)
(***************************************************************************)
Platforms == {"linux", "windows"}

defaultHotkeys(platform) ==
    IF platform = "linux"
    THEN [IncrementCT |-> <<"Numpad1", "NumpadAdd">>,
          DecrementCT |-> <<"Numpad1", "NumpadSubtract">>,
          IncrementT |-> <<"Numpad2", "NumpadAdd">>,
          DecrementT |-> <<"Numpad2", "NumpadSubtract">>,
          Reset |-> <<"Numpad0", "NumpadEnter">>,
          SelectCT |-> <<"LeftControl", "c">>,
          SelectT |-> <<"LeftControl", "t">>,
          SwapTeams |-> <<"LeftControl", "s">>]
    ELSE [IncrementCT |-> <<"1", "+">>,
          DecrementCT |-> <<"1", "-">>,
          IncrementT |-> <<"2", "+">>,
          DecrementT |-> <<"2", "-">>,
          Reset |-> <<"0", "Return">>,
          SelectCT |-> <<"LeftControl", "C">>,
          SelectT |-> <<"LeftControl", "T">>,
          SwapTeams |-> <<"LeftControl", "S">>]

Default(platform) == [Hotkeys |-> defaultHotkeys(platform)]

\* if len(list) == 0 { list = def }
OrDefault(list, def) == IF Len(list) = 0 THEN def ELSE list

\* mutant: the swap_teams binding taken as the file has it
LoadKeepSwap(platform, file) ==
    CASE file.kind = "absent" -> [err |-> FALSE, cfg |-> Default(platform)]
      [] file.kind \in {"unreadable", "malformed"} -> [err |-> TRUE, cfg |-> <<>>]
      [] OTHER ->
           LET def == Default(platform)
               h == file.Hotkeys
           IN  [err |-> FALSE,
                cfg |-> [Hotkeys |->
                    [IncrementCT |-> OrDefault(h.IncrementCT, def.Hotkeys.IncrementCT),
                     DecrementCT |-> OrDefault(h.DecrementCT, def.Hotkeys.DecrementCT),
                     IncrementT |-> OrDefault(h.IncrementT, def.Hotkeys.IncrementT),
                     DecrementT |-> OrDefault(h.DecrementT, def.Hotkeys.DecrementT),
                     Reset |-> OrDefault(h.Reset, def.Hotkeys.Reset),
                     SelectCT |-> OrDefault(h.SelectCT, def.Hotkeys.SelectCT),
                     SelectT |-> OrDefault(h.SelectT, def.Hotkeys.SelectT),
                     SwapTeams |-> h.SwapTeams]]]

\* the file is absent, unreadable, not a JSON configuration, or parsed; a
\* binding the parsed file leaves out, or gives as null, is an empty list
Load(platform, file) ==
    CASE file.kind = "absent" -> [err |-> FALSE, cfg |-> Default(platform)]
      [] file.kind \in {"unreadable", "malformed"} -> [err |-> TRUE, cfg |-> <<>>]
      [] OTHER ->
           LET def == Default(platform)
               h == file.Hotkeys
           IN  [err |-> FALSE,
                cfg |-> [Hotkeys |->
                    [IncrementCT |-> OrDefault(h.IncrementCT, def.Hotkeys.IncrementCT),
                     DecrementCT |-> OrDefault(h.DecrementCT, def.Hotkeys.DecrementCT),
                     IncrementT |-> OrDefault(h.IncrementT, def.Hotkeys.IncrementT),
                     DecrementT |-> OrDefault(h.DecrementT, def.Hotkeys.DecrementT),
                     Reset |-> OrDefault(h.Reset, def.Hotkeys.Reset),
                     SelectCT |-> OrDefault(h.SelectCT, def.Hotkeys.SelectCT),
                     SelectT |-> OrDefault(h.SelectT, def.Hotkeys.SelectT),
                     SwapTeams |-> OrDefault(h.SwapTeams, def.Hotkeys.SwapTeams)]]]

\* the lists a file gives to a binding
FileLists == {<<>>, <<"F5">>, <<"LeftAlt", "x">>}

Files ==
    {[kind |-> k, Hotkeys |-> NoBindings] : k \in {"absent", "unreadable", "malformed"}}
    \cup {[kind |-> "parsed", Hotkeys |-> h] : h \in [DOMAIN NoBindings -> FileLists]}

InitLoad ==
    /\ NewHandler(NoBindings)
    /\ keysDown = {}
    /\ call \in {[in |-> <<p, f>>, out |-> <<>>] : p \in Platforms, f \in Files}
    /\ Waiting

LoadCall ==
    /\ call.out = <<>>
    /\ call' = [call EXCEPT !.out = <<Load(call.in[1], call.in[2])>>]
    /\ UNCHANGED <<state, ev, conc, keysDown, app, trk, cons>>

NextLoad == LoadCall

SpecLoad == InitLoad /\ [][NextLoad]_vars

(***************************************************************************)
(* The Tracker operations the hotkeys run.  SaveGame succeeds (ok) or      *)
(* fails; sounds, labels and dialogs are left out.                         *)
(***************************************************************************)
\* HandleDone on scores ct and t
HandleDone(ct, t, ok) ==
    IF gameScore <= 0
    THEN ctWins' = ct /\ tWins' = t /\ save' = <<>>
    ELSE /\ save' = <<[ctWins |-> ct, tWins |-> t, gameScore |-> gameScore,
                       team |-> team, ok |-> ok]>>
         /\ IF ok
            THEN ctWins' = 0 /\ tWins' = 0
            ELSE ctWins' = ct /\ tWins' = t

\* checkAutoSave on scores ct and t
checkAutoSave(ct, t, ok) ==
    IF gameScore > 0 /\ (ct >= gameScore \/ t >= gameScore)
    THEN HandleDone(ct, t, ok)
    ELSE ctWins' = ct /\ tWins' = t /\ save' = <<>>

\* mutant: the test against the game score left out
IncrementCTNoLimit(ok) ==
    /\ IF gameScore <= 0
       THEN UNCHANGED <<ctWins, tWins, save>>
       ELSE checkAutoSave(ctWins + 1, tWins, ok)
    /\ UNCHANGED <<team, gameScore>>

IncrementCT(ok) ==
    /\ IF gameScore <= 0 \/ ctWins >= gameScore
       THEN ctWins' = ctWins /\ tWins' = tWins /\ save' = <<>>
       ELSE checkAutoSave(ctWins + 1, tWins, ok)
    /\ UNCHANGED <<team, gameScore>>

DecrementCT ==
    /\ ctWins' = (IF ctWins > 0 THEN ctWins - 1 ELSE ctWins)
    /\ save' = <<>>
    /\ UNCHANGED <<tWins, team, gameScore>>

IncrementT(ok) ==
    /\ IF gameScore <= 0 \/ tWins >= gameScore
       THEN ctWins' = ctWins /\ tWins' = tWins /\ save' = <<>>
       ELSE checkAutoSave(ctWins, tWins + 1, ok)
    /\ UNCHANGED <<team, gameScore>>

DecrementT ==
    /\ tWins' = (IF tWins > 0 THEN tWins - 1 ELSE tWins)
    /\ save' = <<>>
    /\ UNCHANGED <<ctWins, team, gameScore>>

Reset ==
    /\ ctWins' = 0
    /\ tWins' = 0
    /\ save' = <<>>
    /\ UNCHANGED <<team, gameScore>>

SelectCT ==
    /\ team' = TeamCT
    /\ save' = <<>>
    /\ UNCHANGED <<ctWins, tWins, gameScore>>

SelectT ==
    /\ team' = TeamT
    /\ save' = <<>>
    /\ UNCHANGED <<ctWins, tWins, gameScore>>

SwapTeams ==
    /\ ctWins' = tWins
    /\ tWins' = ctWins
    /\ team' = (CASE team = TeamCT -> TeamT
                  [] team = TeamT -> TeamCT
                  [] OTHER -> team)
    /\ save' = <<>>
    /\ UNCHANGED gameScore

\* the operations by name
Operations ==
    {"IncrementCT", "DecrementCT", "IncrementT", "DecrementT", "Reset", "SelectCT",
     "SelectT", "SwapTeams"}

Run(op, ok) ==
    CASE op = "IncrementCT" -> IncrementCT(ok)
      [] op = "DecrementCT" -> DecrementCT
      [] op = "IncrementT" -> IncrementT(ok)
      [] op = "DecrementT" -> DecrementT
      [] op = "Reset" -> Reset
      [] op = "SelectCT" -> SelectCT
      [] op = "SelectT" -> SelectT
      [] op = "SwapTeams" -> SwapTeams
      [] OTHER -> UNCHANGED trk

(***************************************************************************)
(* The Tracker operations by themselves, in any order, with a game score   *)
(* that stays as configured                                                *)
(***************************************************************************)
InitTracker ==
    /\ NewHandler(NoBindings)
    /\ keysDown = {}
    /\ call = NoCall
    /\ NoCaller
    /\ \E G \in 1..MaxScore : New(G)

Operate(op) ==
    /\ \E ok \in BOOLEAN : Run(op, ok)
    /\ ev' = Event(op, NoKey, ActionNone)
    /\ UNCHANGED <<state, conc, keysDown, call, app, cons>>

NextTracker ==
    \/ Operate("IncrementCT")
    \/ Operate("DecrementCT")
    \/ Operate("IncrementT")
    \/ Operate("DecrementT")
    \/ Operate("Reset")
    \/ Operate("SelectCT")
    \/ Operate("SelectT")
    \/ Operate("SwapTeams")

SpecTracker == InitTracker /\ [][NextTracker]_vars

(***************************************************************************)
(* Tracker.StartHotkeys: the consumer loop over Handler.Actions()          *)
(***************************************************************************)
\* mutant: the cases of the two select actions exchanged
ForwardCrossed(action) ==
    CASE action = ActionIncrementCT -> "IncrementCT"
      [] action = ActionDecrementCT -> "DecrementCT"
      [] action = ActionIncrementT -> "IncrementT"
      [] action = ActionDecrementT -> "DecrementT"
      [] action = ActionReset -> "Reset"
      [] action = ActionSelectCT -> "SelectT"
      [] action = ActionSelectT -> "SelectCT"
      [] action = ActionSwapTeams -> "SwapTeams"
      [] OTHER -> "none"

\* switch action { case hotkey.ActionIncrementCT: t.IncrementCT() ... }
Forward(action) ==
    CASE action = ActionIncrementCT -> "IncrementCT"
      [] action = ActionDecrementCT -> "DecrementCT"
      [] action = ActionIncrementT -> "IncrementT"
      [] action = ActionDecrementT -> "DecrementT"
      [] action = ActionReset -> "Reset"
      [] action = ActionSelectCT -> "SelectCT"
      [] action = ActionSelectT -> "SelectT"
      [] action = ActionSwapTeams -> "SwapTeams"
      [] OTHER -> "none"

\* for action := range t.hotkey.Actions()
Take ==
    /\ pcCons = "range"
    /\ actionChan # <<>>
    /\ actionChan' = Tail(actionChan)
    /\ got' = Head(actionChan)
    /\ pcCons' = "switch"
    /\ ev' = Event("Receive", NoKey, Head(actionChan))
    /\ UNCHANGED <<bindings, pressedKeys, lastActionTime, hookRunning, hooks, loops, now,
                   emitted, placed, update, conc, keysDown, call, app, trk, sent, done>>

\* the switch and the call it makes, up to the call's return
Dispatch ==
    /\ pcCons = "switch"
    /\ \E ok \in BOOLEAN : Run(Forward(got), ok)
    /\ done' = (IF Forward(got) \in Operations THEN Append(done, Forward(got)) ELSE done)
    /\ pcCons' = "range"
    /\ ev' = Event(Forward(got), NoKey, got)
    /\ UNCHANGED <<state, conc, keysDown, call, app, got, sent>>

\* the hook loop, with the history of what it puts on the channel
HookSending ==
    /\ \E e \in CoreEvents : HookLoop(e)
    /\ sent' = (IF Len(actionChan') > Len(actionChan) THEN Append(sent, ev'.action) ELSE sent)
    /\ UNCHANGED <<conc, keysDown, call, app, trk, pcCons, got, done>>

TickDeliver == Advance(SatStep, DeliverMaxTicks)

InitDeliver == NewHandler(TablePlain) /\ Idle

NextDeliver == CallStart \/ CallStop \/ HookSending \/ TickDeliver \/ Take \/ Dispatch

\* the consumer loop is a goroutine of its own that the scheduler keeps
\* running: it takes what is on the channel and finishes the call it made
SpecDeliver ==
    InitDeliver /\ [][NextDeliver]_vars /\ WF_vars(Take) /\ WF_vars(Dispatch)

(***************************************************************************)
(* The handler behind a keyboard: every key-down and key-up it receives is *)
(* that of a physical key, reported with the raw code and character the    *)
(* platform gives the key at that moment                                   *)
(***************************************************************************)
\* the physical key of an event: left control, or the letter key, whose
\* keysym is 97 (a) or, with Shift, 65 (A)
KeyOf(e) == IF e.Rawcode = 65507 THEN "ControlKey" ELSE "LetterKey"

InitPress == NewHandler(TablePlain) /\ Idle

\* a key goes down, or repeats while it is down
PressKey ==
    \E e \in HookEvents :
       /\ e.Kind = "KeyDown"
       /\ HookLoop(e)
       /\ keysDown' = keysDown \cup {KeyOf(e)}
       /\ UNCHANGED <<conc, call, app, trk, cons>>

\* a key that is down goes up
ReleaseKey ==
    \E e \in HookEvents :
       /\ e.Kind = "KeyUp"
       /\ KeyOf(e) \in keysDown
       /\ HookLoop(e)
       /\ keysDown' = keysDown \ {KeyOf(e)}
       /\ UNCHANGED <<conc, call, app, trk, cons>>

NextPress == CallStart \/ PressKey \/ ReleaseKey \/ Receive \/ Tick

SpecPress == InitPress /\ [][NextPress]_vars

(***************************************************************************)
(* The translators by themselves: one key event, as each platform reports *)
(* it, translated by the translator of that platform                       *)
(***************************************************************************)
\* the keys both tables list, each as <<X11 keysym, Windows virtual-key code>>
ModifierKeys ==
    {<<65505, 160>>, <<65506, 161>>, <<65507, 162>>, <<65508, 163>>,
     <<65513, 164>>, <<65514, 165>>, <<65515, 91>>, <<65516, 92>>}

FunctionKeys == {<<65469 + i, 111 + i>> : i \in 1..12}

\* Return, Backspace, Tab, Space, Escape
EditKeys == {<<65293, 13>>, <<65288, 8>>, <<65289, 9>>, <<32, 32>>, <<65307, 27>>}

\* the digits 0..9 of the numpad, then decimal, add, subtract, multiply, divide
NumpadKeys ==
    {<<65456 + d, 96 + d>> : d \in 0..9}
        \cup {<<65454, 110>>, <<65451, 107>>, <<65453, 109>>, <<65450, 106>>, <<65455, 111>>}

LetterKeys == {<<96 + i, 64 + i>> : i \in 1..26}

\* minus and equals
SymbolKeys == {<<45, 189>>, <<61, 187>>}

PhysicalKeys ==
    ModifierKeys \cup FunctionKeys \cup EditKeys \cup NumpadKeys \cup LetterKeys
        \cup SymbolKeys

\* raw codes neither table has a case for: the keysym of A with the
\* virtual-key code of the semicolon key, and the code 0
UnlistedKeys == {<<65, 186>>, <<0, 0>>}

\* ev.Keychar: every printable character, one below, one above, and the
\* undefined character of a key that types nothing
Keychars == 31..127 \cup {65535}

KeyInputs == {<<k[1], k[2], c>> : k \in PhysicalKeys \cup UnlistedKeys, c \in Keychars}

InitKeys ==
    /\ NewHandler(NoBindings)
    /\ keysDown = {}
    /\ call \in {[in |-> i, out |-> <<>>] : i \in KeyInputs}
    /\ Waiting

\* both translators applied to the event at hand
Translate ==
    /\ call.out = <<>>
    /\ call' = [call EXCEPT !.out =
                    <<mapKeyToName([Kind |-> "KeyDown", Rawcode |-> call.in[1],
                                    Keychar |-> call.in[3]]),
                      mapKeyToNameWindows([Kind |-> "KeyDown", Rawcode |-> call.in[2],
                                           Keychar |-> call.in[3]])>>]
    /\ UNCHANGED <<state, ev, conc, keysDown, app, trk, cons>>

NextKeys == Translate

SpecKeys == InitKeys /\ [][NextKeys]_vars

(***************************************************************************)
(* FormatHotkeys by itself                                                 *)
(***************************************************************************)
\* for i, key := range keys from the i-th name on, result being the string
\* built so far (the first name has index 1 here, 0 in the code)
RECURSIVE FormatLoop(_, _, _)
FormatLoop(keys, i, result) ==
    IF i > Len(keys) THEN result
    ELSE FormatLoop(keys, i + 1, (IF i > 1 THEN result \o "+" ELSE result) \o keys[i])

\* mutant: a name listed before is left out
RECURSIVE FormatHotkeysNoDup(_)
FormatHotkeysNoDup(keys) ==
    IF Len(keys) = 0 THEN "Not set"
    ELSE LET front == SubSeq(keys, 1, Len(keys) - 1)
             last == keys[Len(keys)]
         IN  IF Len(keys) = 1 THEN last
             ELSE IF \E i \in 1..Len(front) : front[i] = last
                  THEN FormatHotkeysNoDup(front)
                  ELSE FormatHotkeysNoDup(front) \o "+" \o last

FormatHotkeys(keys) ==
    IF Len(keys) = 0 THEN "Not set" ELSE FormatLoop(keys, 1, "")

\* key names as the settings hold them
FormatNames == {"a", "A", "LeftControl", "+", "Numpad1"}

RECURSIVE Lists(_, _)
Lists(S, n) ==
    IF n = 0 THEN {<<>>}
    ELSE Lists(S, n - 1) \cup {Append(l, x) : l \in Lists(S, n - 1), x \in S}

InitFormat ==
    /\ NewHandler(NoBindings)
    /\ keysDown = {}
    /\ call \in {[in |-> l, out |-> <<>>] : l \in Lists(FormatNames, MaxCombo)}
    /\ Waiting

Format ==
    /\ call.out = <<>>
    /\ call' = [call EXCEPT !.out = <<FormatHotkeys(call.in)>>]
    /\ UNCHANGED <<state, ev, conc, keysDown, app, trk, cons>>

NextFormat == Format

SpecFormat == InitFormat /\ [][NextFormat]_vars

NextSat == HookSat \/ CallStart \/ Receive \/ TickSat

SpecSat == InitSat /\ [][NextSat]_vars

\* the same with a two-key combination in the table
InitCool == NewHandler(CoolTable) /\ Idle

SpecCool == InitCool /\ [][NextSat]_vars

(***************************************************************************)
(* The threads: the goroutine of Start and a host thread calling          *)
(* UpdateBindings, Start and Stop, each call in the steps that the lock   *)
(* makes of it; the consumer and the clock run beside them.  The loop of  *)
(* a hook that Stop has ended finishes the event it has in hand before    *)
(* the loop of the next Start takes one.                                  *)
(***************************************************************************)
\* a step of a thread that only moves on in its code
Move(op) == ev' = Event(op, NoKey, ActionNone) /\ UNCHANGED state

\* mutant: the loop takes the next event while the last one waits for the lock
LoopRangeEarly(e) ==
    /\ hookRunning
    /\ pcLoop \in {"range", "lock"}
    /\ cur' = e
    /\ applied' = ApplyEvent(applied, e)
    /\ IF mapKeyToName(e) = NoKey
       THEN Skip("Unmapped") /\ pcLoop' = pcLoop
       ELSE IF e.Kind \in {"KeyDown", "KeyUp"}
            THEN Move("Take") /\ pcLoop' = "lock"
            ELSE Skip("NoCase") /\ pcLoop' = pcLoop
    /\ UNCHANGED <<keysMutex, pcHost, arg, env>>

\* the loop receives event e from hookChan, translates it and enters the
\* handler of its kind
LoopRange(e) ==
    /\ hookRunning
    /\ pcLoop = "range"
    /\ cur' = e
    /\ applied' = ApplyEvent(applied, e)
    /\ IF mapKeyToName(e) = NoKey
       THEN Skip("Unmapped") /\ pcLoop' = "range"
       ELSE IF e.Kind \in {"KeyDown", "KeyUp"}
            THEN Move("Take") /\ pcLoop' = "lock"
            ELSE Skip("NoCase") /\ pcLoop' = "range"
    /\ UNCHANGED <<keysMutex, pcHost, arg, env>>

\* h.keysMutex.Lock() of the handler
LoopLock ==
    /\ pcLoop = "lock"
    /\ keysMutex = "free"
    /\ keysMutex' = "loop"
    /\ pcLoop' = "body"
    /\ Move("Lock")
    /\ UNCHANGED <<cur, pcHost, arg, applied, env>>

\* the handler between Lock and the deferred Unlock
LoopHandler ==
    /\ pcLoop = "body"
    /\ LoopBody(cur)
    /\ pcLoop' = "unlock"
    /\ UNCHANGED <<keysMutex, cur, pcHost, arg, applied, env>>

\* the deferred h.keysMutex.Unlock() of the handler
LoopUnlock ==
    /\ pcLoop = "unlock"
    /\ keysMutex' = "free"
    /\ pcLoop' = "range"
    /\ Move("Unlock")
    /\ UNCHANGED <<cur, pcHost, arg, applied, env>>

\* the host calls UpdateBindings(b)
HostUpdateCall(b) ==
    /\ pcHost = "idle"
    /\ pcHost' = "ub_lock"
    /\ arg' = b
    /\ Move("Call")
    /\ UNCHANGED <<keysMutex, pcLoop, cur, applied, env>>

\* mutant: UpdateBindings goes on without the lock
HostUpdateLockSkip ==
    /\ pcHost = "ub_lock"
    /\ pcHost' = "ub_set"
    /\ Move("Lock")
    /\ UNCHANGED <<keysMutex, pcLoop, cur, arg, applied, env>>

\* h.keysMutex.Lock() of UpdateBindings
HostUpdateLock ==
    /\ pcHost = "ub_lock"
    /\ keysMutex = "free"
    /\ keysMutex' = "host"
    /\ pcHost' = "ub_set"
    /\ Move("Lock")
    /\ UNCHANGED <<pcLoop, cur, arg, applied, env>>

\* h.bindings = bindings
HostUpdateSet ==
    /\ pcHost = "ub_set"
    /\ UpdateBindings(arg)
    /\ pcHost' = "ub_unlock"
    /\ UNCHANGED <<keysMutex, pcLoop, cur, arg, applied, env>>

\* the deferred h.keysMutex.Unlock() of UpdateBindings
HostUpdateUnlock ==
    /\ pcHost = "ub_unlock"
    /\ keysMutex' = "free"
    /\ pcHost' = "idle"
    /\ Move("Unlock")
    /\ UNCHANGED <<pcLoop, cur, arg, applied, env>>

\* the host calls Start
HostStart ==
    /\ pcHost = "idle"
    /\ Start
    /\ UNCHANGED <<conc, env>>

\* the host calls Stop: the test of hookRunning
HostStopCall ==
    /\ pcHost = "idle"
    /\ IF hookRunning
       THEN /\ pcHost' = "stop_end"
            /\ Move("Call")
            /\ UNCHANGED <<keysMutex, pcLoop, cur, arg, applied, env>>
       ELSE Stop /\ UNCHANGED <<conc, env>>

\* mutant: Stop ends the hook under the state lock
HostStopEndLocked ==
    /\ pcHost = "stop_end"
    /\ keysMutex = "free"
    /\ Stop
    /\ pcHost' = "idle"
    /\ UNCHANGED <<keysMutex, pcLoop, cur, arg, applied, env>>

\* hook.End() and h.hookRunning = false
HostStopEnd ==
    /\ pcHost = "stop_end"
    /\ Stop
    /\ pcHost' = "idle"
    /\ UNCHANGED <<keysMutex, pcLoop, cur, arg, applied, env>>

TickConc == Advance(1, ConcMaxTicks)

InitConc == \E b \in ConcTables : NewHandler(b) /\ Idle

NextConc ==
    \/ \E e \in CoreEvents : LoopRange(e)
    \/ LoopLock
    \/ LoopHandler
    \/ LoopUnlock
    \/ \E b \in ConcTables : HostUpdateCall(b)
    \/ HostUpdateLock
    \/ HostUpdateSet
    \/ HostUpdateUnlock
    \/ HostStart
    \/ HostStopCall
    \/ HostStopEnd
    \/ Receive
    \/ TickConc

SpecConc == InitConc /\ [][NextConc]_vars

(***************************************************************************)
(* Vocabulary of the properties.  A step is told by the ev it leaves.      *)
(***************************************************************************)
\* the step is a handleKeyDown call
KeyDownStep == ev'.op = "KeyDown"

\* the step is a handleKeyDown call for a name that was not held
FreshKeyDownStep == KeyDownStep /\ ev'.key \notin pressedKeys

\* the step is a handleKeyDown call for a name that was held already
RepeatKeyDownStep == KeyDownStep /\ ev'.key \in pressedKeys

\* the step is a handleKeyDown call that matched action act and tried to send it
Emits(act) == KeyDownStep /\ ev'.action = act

EmitStep == KeyDownStep /\ ev'.action # ActionNone

\* every key of binding B is held, compared case-insensitively
Covers(B, H) ==
    \A i \in 1..Len(B) : \E p \in H : ToLower(p) = ToLower(B[i])

\* a held name that is no key of binding B
HasExtraKey(B, H) ==
    \E p \in H : \A i \in 1..Len(B) : ToLower(p) # ToLower(B[i])

(***************************************************************************)
(* C1.  Exact-cardinality matching: a key-down that emits the action of   *)
(* binding B leaves a held set H with |H| = |B| that holds every key of B *)
(* (case-insensitively); and a key-down that leaves H holding every key   *)
(* of B plus at least one extra key never emits B's action.               *)
(***************************************************************************)
C1_ExactCardinality ==
    [][\A act \in Actions :
          LET B == BindingOf(bindings, act)
              H == pressedKeys'
          IN  /\ Emits(act) => Cardinality(H) = Len(B) /\ Covers(B, H)
              /\ KeyDownStep /\ Covers(B, H) /\ HasExtraKey(B, H) => ~Emits(act)]_vars

\* binding B's match predicate on held set H, as the contract words it
Satisfied(B, H) == Covers(B, H) /\ Cardinality(H) = Len(B)

\* the keys of binding B, as a set of lower-cased names
KeysOf(B) == {ToLower(B[i]) : i \in 1..Len(B)}

\* H holds exactly the keys of B: every key of B, nothing else, each once
ExactlyKeys(B, H) ==
    /\ {ToLower(p) : p \in H} = KeysOf(B)
    /\ Cardinality(H) = Cardinality(KeysOf(B))

\* the priority order of the contract
PriorityOrder ==
    <<ActionIncrementCT, ActionDecrementCT, ActionIncrementT, ActionDecrementT,
      ActionReset, ActionSelectCT, ActionSelectT, ActionSwapTeams>>

\* the first action in priority order whose binding in table b is satisfied by H
FirstSatisfied(b, H) ==
    LET hits == {i \in 1..Len(PriorityOrder) : Satisfied(BindingOf(b, PriorityOrder[i]), H)}
    IN  IF hits = {} THEN ActionNone
        ELSE PriorityOrder[CHOOSE i \in hits : \A j \in hits : i <= j]

(***************************************************************************)
(* C2.  Cooldown invariant: any two send attempts of the engine are at    *)
(* least 100 ms apart, whatever bindings are satisfied in between and     *)
(* whatever UpdateBindings calls happen.                                  *)
(***************************************************************************)
C2_CooldownGap ==
    [][EmitStep /\ emitted # ZeroTime => (now' - emitted) * TickMs >= CooldownMs]_vars

\* a second action has been emitted, 100 ms or more after another one
C2_Witness ==
    /\ ev.op = "KeyDown"
    /\ ev.action # ActionNone
    /\ Len(actionChan) >= 2
    /\ emitted = now
    /\ actionChan[Len(actionChan)] # actionChan[Len(actionChan) - 1]

(***************************************************************************)
(* C3.  Exactly-once firing, as claimed: the key-down that completes      *)
(* exactly the keys of a non-empty binding (outside the cooldown) puts    *)
(* one action of that binding on the queue; auto-repeat key-downs and     *)
(* key-ups put none.                                                      *)
(***************************************************************************)
C3_ExactlyOnce ==
    [][/\ \A act \in Actions :
            LET B == BindingOf(bindings, act)
            IN  FreshKeyDownStep /\ ~InCooldown /\ Len(B) > 0
                    /\ ExactlyKeys(B, pressedKeys')
                => actionChan' = Append(actionChan, act)
       /\ RepeatKeyDownStep => actionChan' = actionChan
       /\ ev'.op = "KeyUp" => actionChan' = actionChan]_vars

(***************************************************************************)
(* C3, amended.  The key-down that brings the held set to len(B) names    *)
(* holding every key of a non-empty binding B, processed outside the      *)
(* cooldown while no earlier-priority binding is satisfied by the same    *)
(* held set and the queue has a free slot, puts exactly one action of B   *)
(* on the queue; auto-repeat key-downs and key-ups put none.              *)
(***************************************************************************)
C3_ExactlyOnceAmended ==
    [][/\ \A act \in Actions :
            LET B == BindingOf(bindings, act)
            IN  FreshKeyDownStep /\ ~InCooldown /\ Len(B) > 0
                    /\ Satisfied(B, pressedKeys')
                    /\ FirstSatisfied(bindings, pressedKeys') = act
                    /\ Len(actionChan) < ChanCap
                => actionChan' = Append(actionChan, act)
       /\ RepeatKeyDownStep => actionChan' = actionChan
       /\ ev'.op = "KeyUp" => actionChan' = actionChan]_vars

\* the second key-down of a two-key combination has just queued its action
C3_Witness ==
    /\ ev = Event("KeyDown", "a", ActionSelectCT)
    /\ pressedKeys = {"LeftControl", "a"}
    /\ bindings.SelectCT = <<"LeftControl", "a">>
    /\ actionChan = <<ActionSelectCT>>

(***************************************************************************)
(* C4.  Auto-repeat suppression: a key-down for a name already held       *)
(* changes neither the held set, the cooldown clock, the binding table    *)
(* nor the queue, and evaluates no match.                                 *)
(***************************************************************************)
C4_AutoRepeatNoOp ==
    [][RepeatKeyDownStep =>
          /\ UNCHANGED <<pressedKeys, lastActionTime, bindings, actionChan>>
          /\ ev'.action = ActionNone]_vars

\* a repeated key-down ran while the held set satisfied a binding, the cooldown over
C4_Witness ==
    /\ ev.op = "KeyDown"
    /\ ev.key \in pressedKeys
    /\ ev.action = ActionNone
    /\ ~InCooldown
    /\ MatchAction(bindings, pressedKeys) # ActionNone

(***************************************************************************)
(* C5.  Queue saturation drop: the queue never holds more than 10         *)
(* actions; a send attempted on a full queue completes and leaves the 10  *)
(* queued actions as they are; the queue changes only by a send that      *)
(* appends the action just matched or by a receive of its head, so a      *)
(* dropped action is never delivered later.                               *)
(***************************************************************************)
C5_SaturationDrop ==
    [][/\ Len(actionChan') <= ChanCap
       /\ EmitStep /\ Len(actionChan) = ChanCap => actionChan' = actionChan
       /\ ev'.op = "Receive" =>
              ev'.action = Head(actionChan) /\ actionChan' = Tail(actionChan)
       /\ actionChan' # actionChan =>
              \/ ev'.op = "Receive"
              \/ EmitStep /\ actionChan' = Append(actionChan, ev'.action)]_vars

\* a key-down has just matched an action that the full queue did not take
C5_Witness ==
    /\ ev.op = "KeyDown"
    /\ ev.action # ActionNone
    /\ emitted = now
    /\ Len(actionChan) = ChanCap
    /\ actionChan[ChanCap] # ev.action

(***************************************************************************)
(* C6.  No stale held keys across activations: when Start begins a new    *)
(* listening period the held set is empty.                                *)
(***************************************************************************)
C6_NoStaleHeldKeys ==
    [][ev'.op = "Start" /\ ~hookRunning /\ hookRunning' => pressedKeys' = {}]_vars

(***************************************************************************)
(* C7.  An empty binding never matches: no key-down emits an action       *)
(* whose binding is the empty list, and the held set is never empty when  *)
(* matching is evaluated.                                                 *)
(***************************************************************************)
C7_EmptyNeverMatches ==
    [][/\ \A act \in Actions : Emits(act) => Len(BindingOf(bindings, act)) > 0
       /\ FreshKeyDownStep => pressedKeys' # {}]_vars

\* an action was emitted past an empty binding of earlier priority
C7_Witness ==
    /\ ev.op = "KeyDown"
    /\ ev.action = ActionDecrementCT
    /\ bindings.IncrementCT = <<>>
    /\ bindings.SelectCT = <<>>

(***************************************************************************)
(* C8.  Fixed priority, first match wins: a key-down that passes the      *)
(* repeat and cooldown checks matches the first satisfied binding in the  *)
(* order increment-CT, decrement-CT, increment-T, decrement-T, reset,     *)
(* select-CT, select-T, swap-teams and no other; one key-down queues at   *)
(* most one action.                                                       *)
(***************************************************************************)
C8_FirstMatchWins ==
    [][/\ FreshKeyDownStep /\ ~InCooldown =>
              ev'.action = FirstSatisfied(bindings, pressedKeys')
       /\ KeyDownStep =>
              \/ actionChan' = actionChan
              \/ ev'.action # ActionNone /\ actionChan' = Append(actionChan, ev'.action)]_vars

\* of two actions bound to the same key set the earlier one has just been queued
C8_Witness ==
    /\ ev.op = "KeyDown"
    /\ ev.action = ActionDecrementCT
    /\ Satisfied(bindings.SwapTeams, pressedKeys)
    /\ actionChan # <<>>
    /\ actionChan[Len(actionChan)] = ActionDecrementCT

(***************************************************************************)
(* C9.  Binding replacement is immediate, as claimed: once UpdateBindings *)
(* has replaced an action's binding B1 by B2, a key-down that makes the   *)
(* held set exactly B2 emits the action (outside the cooldown) and a      *)
(* key-down that makes it exactly B1 and not B2 emits nothing for it.     *)
(***************************************************************************)
C9_ReplacementImmediate ==
    [][\A act \in Actions :
          LET B1 == BindingOf(update.old, act)
              B2 == BindingOf(update.new, act)
          IN  B1 # B2 =>
                /\ FreshKeyDownStep /\ ~InCooldown /\ ExactlyKeys(B2, pressedKeys')
                      => Emits(act)
                /\ KeyDownStep /\ ExactlyKeys(B1, pressedKeys')
                      /\ ~ExactlyKeys(B2, pressedKeys')
                      => ~Emits(act)]_vars

(***************************************************************************)
(* C9, amended.  After UpdateBindings every key-down is evaluated against *)
(* the table the host passed: a key-down outside the cooldown whose held  *)
(* set satisfies the action's new binding B2 (every key of B2 held,       *)
(* len(B2) names held) emits the action unless an earlier-priority        *)
(* binding of the new table is satisfied too, and a key-down whose held   *)
(* set does not satisfy B2 emits nothing for the action, whatever B1 was. *)
(***************************************************************************)
C9_ReplacementImmediateAmended ==
    [][\A act \in Actions :
          LET B2 == BindingOf(update.new, act)
          IN  /\ FreshKeyDownStep /\ ~InCooldown /\ Satisfied(B2, pressedKeys')
                    /\ FirstSatisfied(update.new, pressedKeys') = act
                    => Emits(act)
              /\ KeyDownStep /\ ~Satisfied(B2, pressedKeys') => ~Emits(act)]_vars

\* after {a} was rebound to {LeftControl}, a key-down of LeftControl alone emitted it
C9_Witness ==
    /\ update.old.IncrementCT = <<"a">>
    /\ update.new.IncrementCT = <<"LeftControl">>
    /\ ev = Event("KeyDown", "LeftControl", ActionIncrementCT)
    /\ pressedKeys = {"LeftControl"}

(***************************************************************************)
(* C10.  UpdateBindings changes only the binding table: it installs the   *)
(* table passed and leaves the held set, the cooldown clock and the queue *)
(* as they are, emitting nothing, also when the held keys satisfy a       *)
(* binding of the new table.                                              *)
(***************************************************************************)
C10_UpdateFrame ==
    [][ev'.op = "UpdateBindings" =>
          /\ bindings' = update'.new
          /\ UNCHANGED <<pressedKeys, lastActionTime, actionChan>>
          /\ ev'.action = ActionNone]_vars

\* a table was installed that the held keys satisfy, the cooldown over
C10_Witness ==
    /\ ev.op = "UpdateBindings"
    /\ update.old # update.new
    /\ pressedKeys # {}
    /\ ~InCooldown
    /\ MatchAction(bindings, pressedKeys) # ActionNone
    /\ MatchAction(update.old, pressedKeys) = ActionNone

(***************************************************************************)
(* C11.  Key-up semantics: a key-up removes its name from the held set,   *)
(* in the cooldown or out of it (a name not held: no change), and leaves  *)
(* the cooldown clock, the binding table and the queue as they are; no    *)
(* key-up emits an action, also when the keys left held are exactly the   *)
(* keys of a binding.                                                      *)
(***************************************************************************)
C11_KeyUpFrame ==
    [][ev'.op = "KeyUp" =>
          /\ pressedKeys' = pressedKeys \ {ev'.key}
          /\ UNCHANGED <<lastActionTime, bindings, actionChan>>
          /\ ev'.action = ActionNone]_vars

\* a release outside the cooldown left held exactly the keys of a binding
\* and nothing has ever been emitted
C11_Witness ==
    /\ ev.op = "KeyUp"
    /\ ev.key \notin pressedKeys
    /\ ~InCooldown
    /\ MatchAction(bindings, pressedKeys) # ActionNone
    /\ lastActionTime = ZeroTime
    /\ actionChan = <<>>

\* the raw code of event e has no entry in the translator's table and its
\* character lies outside the printable range 32..126
Unmapped(e) ==
    /\ e.Rawcode \notin {65507, 97}
    /\ e.Keychar < 32 \/ e.Keychar > 126

(***************************************************************************)
(* C12.  Unmapped keys are invisible: for an event whose raw code has no  *)
(* table entry and whose character is outside 32..126 the translator      *)
(* returns the empty name and the loop's turn changes neither the held    *)
(* set, the cooldown clock nor the queue; the held set never contains the *)
(* empty name, not at the start and not after any step.                   *)
(***************************************************************************)
C12_UnmappedInvisible ==
    /\ NoKey \notin pressedKeys
    /\ \A e \in HookEvents : Unmapped(e) => mapKeyToName(e) = NoKey
    /\ [][/\ NoKey \notin pressedKeys'
          /\ ev'.op = "Unmapped" =>
                 UNCHANGED <<pressedKeys, lastActionTime, actionChan>>
          /\ ev'.op \in {"KeyDown", "KeyUp"} => ev'.key # NoKey]_vars

\* an unmapped event was skipped in a state where the empty name as one more
\* held key would have completed a binding
C12_Witness ==
    /\ ev.op = "Unmapped"
    /\ pressedKeys = {"a"}
    /\ ~InCooldown
    /\ MatchAction(bindings, pressedKeys) = ActionNone
    /\ MatchAction(bindings, pressedKeys \cup {NoKey}) # ActionNone
    /\ actionChan = <<>>

(***************************************************************************)
(* C13.  A key-down processed while less than 100 ms have passed since    *)
(* the cooldown clock still records its key as held, emits nothing and    *)
(* leaves the cooldown clock as it is; a later key-up for the key removes *)
(* it.                                                                     *)
(***************************************************************************)
C13_CooldownSwallow ==
    [][/\ KeyDownStep /\ InCooldown =>
              /\ pressedKeys' = pressedKeys \cup {ev'.key}
              /\ UNCHANGED <<lastActionTime, actionChan>>
              /\ ev'.action = ActionNone
       /\ ev'.op = "KeyUp" => ev'.key \notin pressedKeys']_vars

\* IncrementCT ({a}) was emitted this very tick; the key-down of LeftControl
\* that completed SelectCT ({LeftControl, a}) was swallowed, its key held
C13_Witness ==
    /\ ev = Event("KeyDown", "LeftControl", ActionNone)
    /\ pressedKeys = {"a", "LeftControl"}
    /\ bindings = TablePlain
    /\ update.old = TablePlain
    /\ lastActionTime = now
    /\ InCooldown
    /\ actionChan = <<ActionIncrementCT>>

(***************************************************************************)
(* C14.  Held-set tracking: a name is held exactly when the last event    *)
(* processed for that exact name, since the handler was created, was a    *)
(* key-down.  Stated step by step: nothing is held at creation; a         *)
(* processed key-down leaves its name held; a processed key-up leaves its *)
(* name not held; and a step that processes no event for a name leaves    *)
(* that name held or not held as it was.                                  *)
(***************************************************************************)
C14_HeldSetTracking ==
    /\ pressedKeys = {}
    /\ [][/\ pressedKeys' \subseteq Keys
          /\ \A k \in Keys :
                IF ev'.op \in {"KeyDown", "KeyUp"} /\ ev'.key = k
                THEN (k \in pressedKeys') = (ev'.op = "KeyDown")
                ELSE (k \in pressedKeys') = (k \in pressedKeys)]_vars

\* the key-up of "a" was processed while "A", the same letter spelled
\* differently, stays held with LeftControl
C14_Witness ==
    /\ ev = Event("KeyUp", "a", ActionNone)
    /\ pressedKeys = {"A", "LeftControl"}
    /\ hookRunning

(***************************************************************************)
(* C15.  FIFO hand-off: the consumer receives the actions whose send      *)
(* succeeded, each once and in the order they were matched.  Stated step  *)
(* by step: a receive hands over the oldest queued action and leaves the  *)
(* others in their order; any other step leaves the queue alone or is a   *)
(* key-down that puts the action it matched behind all queued ones.       *)
(***************************************************************************)
C15_FifoHandOff ==
    [][IF ev'.op = "Receive"
       THEN /\ actionChan # <<>>
            /\ ev'.action = actionChan[1]
            /\ actionChan' = SubSeq(actionChan, 2, Len(actionChan))
       ELSE \/ actionChan' = actionChan
            \/ EmitStep /\ actionChan' = actionChan \o <<ev'.action>>]_vars

\* the queue was full; the consumer received its oldest action, one of
\* another kind than the action now at the head
C15_Witness ==
    /\ ev.op = "Receive"
    /\ Len(actionChan) = ChanCap - 1
    /\ ev.action # actionChan[1]
    /\ actionChan[1] # actionChan[ChanCap - 1]

(***************************************************************************)
(* C19.  Start is idempotent: where Stop is never called, a Start call    *)
(* while the handler is listening installs no second hook and spawns no   *)
(* second loop and changes nothing else of the handler; after any Start   *)
(* call exactly one hook is installed and exactly one loop processes      *)
(* events, and no other step changes their number.                        *)
(***************************************************************************)
C19_StartIdempotent ==
    [][IF ev'.op = "Start"
       THEN /\ hookRunning' /\ hooks' = 1 /\ loops' = 1
            /\ hookRunning =>
                   UNCHANGED <<hookRunning, hooks, loops, bindings, pressedKeys,
                               lastActionTime, actionChan>>
       ELSE UNCHANGED <<hookRunning, hooks, loops>>]_vars

\* Start was called on a handler that had processed key events and emitted
\* an action, hence was listening; one hook, one loop
C19_Witness ==
    /\ ev.op = "Start"
    /\ pressedKeys # {}
    /\ actionChan # <<>>
    /\ hookRunning
    /\ hooks = 1
    /\ loops = 1

(***************************************************************************)
(* C16.  The event path never waits for the consumer: in every state in   *)
(* which the hook is installed, whatever the consumer has or has not      *)
(* received and however full the queue is, the loop's turn for each event *)
(* can run, and it runs to its end with the held set updated for the      *)
(* event.  (A turn is one section under the state lock; nothing in it     *)
(* waits.)                                                                 *)
(***************************************************************************)
C16_NeverBlocks ==
    hookRunning =>
        \A e \in CoreEvents :
            ENABLED (/\ HookLoop(e)
                     /\ UNCHANGED <<conc, env>>
                     /\ pressedKeys' = ApplyEvent(pressedKeys, e))

\* the queue is full of actions the consumer never took; a key-down has
\* matched another action, dropped it and recorded its key as held
C16_Witness ==
    /\ ev.op = "KeyDown"
    /\ ev.action # ActionNone
    /\ ev.key \in pressedKeys
    /\ Len(actionChan) = ChanCap
    /\ \A i \in 1..ChanCap : actionChan[i] # ev.action
    /\ lastActionTime = now

\* the step is the handler's section between Lock and Unlock
HandlerSection == pcLoop = "body" /\ pcLoop' = "unlock"

\* the step is the assignment of UpdateBindings
UpdateSection == pcHost = "ub_set" /\ pcHost' = "ub_unlock"

(***************************************************************************)
(* C17.  Single-lock discipline: the handlers read and write the held     *)
(* set, the cooldown clock and the binding table only while the loop      *)
(* holds keysMutex, and UpdateBindings writes the table only while its    *)
(* caller holds it; no other step touches the three.  So the table does   *)
(* not change from the loop's Lock to its Unlock (an UpdateBindings call  *)
(* falls before or after the match), nor the held set and the clock from  *)
(* the caller's Lock to its Unlock.                                       *)
(***************************************************************************)
C17_SingleLock ==
    [][/\ HandlerSection => keysMutex = "loop" /\ keysMutex' = "loop"
       /\ UpdateSection => keysMutex = "host" /\ keysMutex' = "host"
       /\ ~UNCHANGED <<pressedKeys, lastActionTime, bindings>>
              => HandlerSection \/ UpdateSection
       /\ keysMutex = "loop" /\ keysMutex' = "loop" => bindings' = bindings
       /\ keysMutex = "host" /\ keysMutex' = "host" =>
              UNCHANGED <<pressedKeys, lastActionTime>>]_vars

\* a key-down waits for the lock while UpdateBindings, holding it, has
\* installed another table
C17_Witness ==
    /\ pcLoop = "lock"
    /\ cur.Kind = "KeyDown"
    /\ mapKeyToName(cur) # NoKey
    /\ keysMutex = "host"
    /\ pcHost = "ub_unlock"
    /\ bindings = arg
    /\ update.old # update.new

(***************************************************************************)
(* C18.  Stop cannot deadlock with event processing: a thread inside Stop *)
(* does not hold the state lock, and its next step, the call that ends    *)
(* the hook, can run in every state, whoever holds the lock and wherever  *)
(* the loop is in an event; the call of Stop itself can run whenever the  *)
(* host is idle.                                                           *)
(***************************************************************************)
C18_StopNeverWaits ==
    /\ pcHost = "idle" => ENABLED HostStopCall
    /\ pcHost = "stop_end" => keysMutex # "host" /\ ENABLED HostStopEnd

\* Stop has returned while the loop is inside a handler, the lock held
C18_Witness ==
    /\ ev.op = "Stop"
    /\ pcHost = "idle"
    /\ ~hookRunning
    /\ pcLoop = "unlock"
    /\ keysMutex = "loop"

C21_NoFault == ev.op # "Panic"

(***************************************************************************)
(* C22.  The two translators agree on canonical names: for every physical  *)
(* key that both tables list (modifiers, F1..F12, Return, Backspace, Tab,  *)
(* Space, Escape, numpad digits and operators, letters), the Linux         *)
(* translator on the key's X11 code and the Windows translator on its      *)
(* virtual-key code return the same name.                                  *)
(***************************************************************************)
C22_TranslatorsAgree ==
    (call.out # <<>> /\ <<call.in[1], call.in[2]>> \in PhysicalKeys)
        => call.out[1] = call.out[2]

\* the name the fallback is to give a printable character: the upper-case
\* letter for a letter, the character itself otherwise
UpperName(c) ==
    IF c \in 97..122 THEN Printable[c - 63]
    ELSE Printable[c - 31]

(***************************************************************************)
(* C23.  Fallback translation: when the raw code has no table entry and    *)
(* the character is printable ASCII (32..126), the translator returns the  *)
(* upper-case letter for a letter ('a' and 'A' both give "A") and the      *)
(* one-character string of the character otherwise, on both platforms.     *)
(***************************************************************************)
C23_FallbackUpper ==
    (call.out # <<>> /\ call.in[3] \in 32..126)
        => /\ linuxRawcode(call.in[1]) = NoKey => call.out[1] = UpperName(call.in[3])
           /\ mapRawcode(call.in[2]) = NoKey => call.out[2] = UpperName(call.in[3])

\* the names a binding lists, as a set
NamesOf(B) == {B[i] : i \in 1..Len(B)}

(***************************************************************************)
(* C24.  Matching treats a binding as a set: whether a key-down fires a    *)
(* binding depends only on the set of held names and on the set of names   *)
(* the binding lists, not on the order of the list nor on the order in     *)
(* which the keys went down: at every new key-down, two bindings listing   *)
(* the same set of names are accepted or rejected together.                *)
(***************************************************************************)
C24_BindingAsSet ==
    [][FreshKeyDownStep =>
          \A act \in Actions, b2 \in BindingTables, act2 \in Actions :
             NamesOf(BindingOf(bindings, act)) = NamesOf(BindingOf(b2, act2))
                => (matchesCombo(BindingOf(bindings, act), pressedKeys')
                       <=> matchesCombo(BindingOf(b2, act2), pressedKeys'))]_vars

(***************************************************************************)
(* C25.  Closed output alphabet: every value on the action channel, and    *)
(* every value the consumer receives from it, is one of the eight actions  *)
(* increment-CT .. swap-teams; ActionNone is never sent.                   *)
(***************************************************************************)
C25_ClosedAlphabet ==
    /\ \A i \in 1..Len(actionChan) : actionChan[i] \in Actions
    /\ ev.op = "Receive" => ev.action \in Actions

\* an action received while a different one waits behind it
C25_Witness ==
    /\ ev.op = "Receive"
    /\ actionChan # <<>>
    /\ actionChan[1] # ev.action
    /\ {ev.action, actionChan[1]} \subseteq Actions

(***************************************************************************)
(* C27.  Stop does not drain, clear or close the action channel: a Stop    *)
(* call leaves the queued actions as they are, in their order, and while   *)
(* the handler is stopped the consumer can still receive them, oldest      *)
(* first.                                                                  *)
(***************************************************************************)
C27_StopKeepsQueue ==
    /\ []((~hookRunning /\ actionChan # <<>>) => ENABLED Receive)
    /\ [][/\ ev'.op = "Stop" => actionChan' = actionChan
          /\ (ev'.op = "Receive" /\ ~hookRunning)
                => /\ ev'.action = Head(actionChan)
                   /\ actionChan' = Tail(actionChan)]_vars

\* stopped with two different actions queued, the older one received
C27_Witness ==
    /\ ev.op = "Receive"
    /\ ~hookRunning
    /\ hooks = 0
    /\ actionChan # <<>>
    /\ ev.action # actionChan[1]
    /\ emitted # ZeroTime

(***************************************************************************)
(* C26.  A failure of the OS hook to start is a startup failure of that    *)
(* Start call: a Start that leaves no hook installed does not leave the    *)
(* handler listening, and a Start called with no hook installed attempts   *)
(* to start the hook (it spawns the loop of a new hook channel).           *)
(***************************************************************************)
C26_StartFailure ==
    [][ev'.op = "Start" =>
          /\ hooks' = 0 => ~hookRunning'
          /\ hooks = 0 => loops' = loops + 1]_vars

\* the names of a non-empty list joined with "+", the first name first
RECURSIVE Joined(_)
Joined(names) ==
    IF Len(names) = 1 THEN names[1]
    ELSE names[1] \o "+" \o Joined(Tail(names))

(***************************************************************************)
(* C28.  FormatHotkeys returns, for a non-empty list of key names, the     *)
(* names joined with "+" in their order, nothing reordered, left out or    *)
(* changed in case (so <<"a", "LeftControl", "a">> gives                   *)
(* "a+LeftControl+a"), and it returns "Not set" for the empty list.        *)
(***************************************************************************)
C28_FormatJoins ==
    call.out # <<>> =>
       /\ call.out[1] = (IF call.in = <<>> THEN "Not set" ELSE Joined(call.in))
       /\ call.in = <<"a", "LeftControl", "a">> => call.out[1] = "a+LeftControl+a"
       /\ call.in = <<"A", "a">> => call.out[1] = "A+a"

\* a list with a repeated name and a name in two cases, formatted
C28_Witness ==
    /\ call.in = <<"a", "A", "a">>
    /\ call.out = <<"a+A+a">>

(***************************************************************************)
(* C29.  Every physical key press is cleared in the end: where the engine  *)
(* receives the key-down and later the key-up of each physical key, the    *)
(* held set is empty once every key that went down has gone up, also when  *)
(* the platform reports the release with another raw code or character     *)
(* than the press.                                                         *)
(***************************************************************************)
C29_ReleasedKeysCleared == keysDown = {} => pressedKeys = {}

\* the names of a held set in lower case
LowerOf(H) == {ToLower(k) : k \in H}

(***************************************************************************)
(* C30.  Whenever matchesCombo accepts a binding, the lower-cased held     *)
(* names and the lower-cased names of the binding are the same set, also   *)
(* for bindings listing a key twice or in two cases and for held sets with *)
(* two names differing only in case: a key-down that emits an action       *)
(* leaves a held set equal, in lower case, to the keys of that action's    *)
(* binding.                                                                *)
(***************************************************************************)
C30_AcceptedSetsEqual ==
    [][EmitStep => LowerOf(pressedKeys') = KeysOf(BindingOf(bindings, ev'.action))]_vars

(***************************************************************************)
(* C31.  As claimed: the cooldown clock is the time of the last action     *)
(* actually placed on the queue, so a match whose send the full queue      *)
(* drops leaves the cooldown clock as it is.                               *)
(***************************************************************************)
C31_DropKeepsClock ==
    [][EmitStep /\ Len(actionChan) = ChanCap => lastActionTime' = lastActionTime]_vars

(***************************************************************************)
(* C31, amended.  The cooldown clock is the time of the last match, placed *)
(* on the queue or dropped: every key-down that matches a binding sets the *)
(* clock to the present time, also when the full queue drops the action,   *)
(* and a key-down less than 100 ms after a match, dropped or not, emits    *)
(* nothing.                                                                *)
(***************************************************************************)
C31_MatchSetsClock ==
    [][/\ EmitStep => lastActionTime' = now
       /\ EmitStep /\ Len(actionChan) = ChanCap =>
              actionChan' = actionChan /\ lastActionTime' = now
       /\ KeyDownStep /\ emitted # ZeroTime /\ (now - emitted) * TickMs < CooldownMs =>
              ~EmitStep /\ lastActionTime' = lastActionTime]_vars

\* IncrementCT has matched while the queue was full of Reset actions: it was
\* dropped and the cooldown runs from this moment
C31_Witness ==
    /\ ev = Event("KeyDown", "a", ActionIncrementCT)
    /\ Len(actionChan) = ChanCap
    /\ \A i \in 1..ChanCap : actionChan[i] = ActionReset
    /\ lastActionTime = now
    /\ InCooldown

(***************************************************************************)
(* C32.  A match swallowed by the cooldown is never fired later on its     *)
(* own: from a state in which the held keys already match the binding of   *)
(* an action (the key-down that completed it was swallowed, or it fired),  *)
(* no step emits that action, however much time has passed and whatever    *)
(* auto-repeat key-downs arrive; an action is emitted only by the key-down *)
(* of a key that is not held, outside the cooldown.                        *)
(***************************************************************************)
C32_SwallowedNeverFires ==
    [][EmitStep =>
          /\ ~matchesCombo(BindingOf(bindings, ev'.action), pressedKeys)
          /\ ev'.key \notin pressedKeys
          /\ ~InCooldown]_vars

\* IncrementCT ({a}) was emitted at time 0 and the key-down that completed
\* SelectCT ({LeftControl, a}) swallowed; 100 ms later both keys are still
\* held, a key-down of LeftControl has repeated and nothing more was emitted
C32_Witness ==
    /\ ev = Event("KeyDown", "LeftControl", ActionNone)
    /\ pressedKeys = {"a", "LeftControl"}
    /\ bindings = TablePlain
    /\ update = [old |-> TablePlain, new |-> TablePlain]
    /\ emitted = 0
    /\ ~InCooldown
    /\ actionChan = <<ActionIncrementCT>>

\* the key-down is that of a key not held and leaves held keys that match a
\* binding
CompletingKeyDown ==
    FreshKeyDownStep /\ MatchAction(bindings, pressedKeys') # ActionNone

\* 100 ms or more have passed since time t, or t is no time at all
Elapsed(t) == t = ZeroTime \/ (now - t) * TickMs >= CooldownMs

(***************************************************************************)
(* C33.  As claimed, an emission being an action placed on the queue: a    *)
(* key-down that completes a binding at least 100 ms after the last action *)
(* was placed on the queue (or before any was), with a free queue slot,    *)
(* always places its action on the queue, whatever key-downs were          *)
(* swallowed or matched nothing in between.                                *)
(***************************************************************************)
C33_EmitsAfterLastPlaced ==
    [][CompletingKeyDown /\ Elapsed(placed) /\ Len(actionChan) < ChanCap =>
          EmitStep /\ actionChan' = Append(actionChan, ev'.action)]_vars

(***************************************************************************)
(* C33, amended.  A swallowed or unmatched key-down does not extend the    *)
(* cooldown: it leaves the cooldown clock as it is, and a key-down that    *)
(* completes a binding at least 100 ms after the last match (its action    *)
(* placed on the queue or dropped) always emits, onto the queue if a slot  *)
(* is free, however many key-downs were swallowed in between; the first    *)
(* matching key-down after the engine is created is never suppressed.      *)
(***************************************************************************)
C33_EmitsAfterLastMatch ==
    [][/\ KeyDownStep /\ ~EmitStep => lastActionTime' = lastActionTime
       /\ CompletingKeyDown /\ Elapsed(emitted) =>
              /\ EmitStep
              /\ Len(actionChan) < ChanCap => actionChan' = Append(actionChan, ev'.action)]_vars

\* IncrementCT ({a}) was emitted at time 0; the key-down of LeftControl
\* emitted nothing (swallowed at time 0, or unmatched 100 ms later); with
\* LeftControl still held, the key-down of a 100 ms after the emission
\* completes SelectCT ({LeftControl, a}) and emits it
C33_Witness ==
    /\ ev = Event("KeyDown", "a", ActionSelectCT)
    /\ pressedKeys = {"a", "LeftControl"}
    /\ actionChan = <<ActionIncrementCT, ActionSelectCT>>
    /\ now = SatStep
    /\ emitted = now

\* no thread is inside Start or Stop
Quiet == \A t \in Threads : pcCall[t] = "idle"

(***************************************************************************)
(* C34.  With Start and Stop called concurrently from different threads:   *)
(* once the calls have returned the listening flag agrees with whether the *)
(* OS hook is running, at no time is more than one event loop active, and  *)
(* the OS hook is never started a second time before it is ended.          *)
(***************************************************************************)
C34_StartStopSafe ==
    /\ Quiet => (hookRunning <=> hooks > 0)
    /\ loops <= 1
    /\ hooks <= 1

(***************************************************************************)
(* C35.  With the calls made one after another: Stop when not listening    *)
(* returns without calling the OS shutdown and changes nothing; Stop when  *)
(* listening ends the hook, and the loop with it, and clears the listening *)
(* flag; and every Start that finds the engine not listening, the one      *)
(* after Start and Stop included, leaves it listening with exactly one     *)
(* hook and exactly one event loop.                                        *)
(***************************************************************************)
C35_StopThenStart ==
    [][/\ ev'.op = "Stop.test" /\ ~hookRunning =>
              Quiet' /\ UNCHANGED <<hookRunning, hooks, loops>>
       /\ ev'.op = "Stop.test" /\ hookRunning => pcCall'[1] = "stop_end"
       /\ ev'.op = "Stop.end" => hooks' = 0 /\ loops' = 0
       /\ ev'.op = "Stop.flag" => Quiet' /\ ~hookRunning' /\ hooks' = 0 /\ loops' = 0
       /\ ev'.op = "Start.go" => Quiet' /\ hookRunning' /\ hooks' = 1 /\ loops' = 1]_vars

\* the second Start has returned: the engine listens with one hook and one
\* loop
C35_Witness ==
    /\ ev.op = "Start.go"
    /\ starts = 2
    /\ Quiet
    /\ hookRunning
    /\ hooks = 1
    /\ loops = 1

\* the tracker operation that corresponds to an action
Corresponding(action) ==
    CASE action = ActionIncrementCT -> "IncrementCT"
      [] action = ActionDecrementCT -> "DecrementCT"
      [] action = ActionIncrementT -> "IncrementT"
      [] action = ActionDecrementT -> "DecrementT"
      [] action = ActionReset -> "Reset"
      [] action = ActionSelectCT -> "SelectCT"
      [] action = ActionSelectT -> "SelectT"
      [] action = ActionSwapTeams -> "SwapTeams"

\* the n-th action put on the channel has been forwarded
Forwarded(n) == Len(done) >= n /\ done[n] = Corresponding(sent[n])

\* what was put on the channel and not yet forwarded
InFlight == (IF pcCons = "switch" THEN <<got>> ELSE <<>>) \o actionChan

(***************************************************************************)
(* C36.  With the consumer loop kept running: every action put on the      *)
(* channel is eventually forwarded; at all times the operations run are,   *)
(* in order and one for one, those corresponding to the first actions put  *)
(* on the channel, the actions after them being the one the loop holds     *)
(* and those still on the channel; and the loop holds one action at most.  *)
(***************************************************************************)
C36_Delivered ==
    /\ \A n \in 1..(DeliverMaxTicks + 1) : (Len(sent) >= n) ~> Forwarded(n)
    /\ [](/\ Len(done) + Len(InFlight) = Len(sent)
          /\ \A n \in 1..Len(done) : Forwarded(n)
          /\ \A n \in 1..Len(InFlight) : InFlight[n] = sent[Len(done) + n])

\* IncrementCT and then SelectCT were put on the channel and both forwarded
C36_Witness ==
    /\ sent = <<ActionIncrementCT, ActionSelectCT>>
    /\ done = <<"IncrementCT", "SelectCT">>
    /\ actionChan = <<>>
    /\ pcCons = "range"
    /\ ctWins = 1
    /\ team = TeamCT

\* the eight bindings
BindingNames == DOMAIN NoBindings

SaveOf(ct, t, ok) ==
    <<[ctWins |-> ct, tWins |-> t, gameScore |-> gameScore, team |-> team, ok |-> ok]>>

(***************************************************************************)
(* C38.  With a positive game score G that stays the same, whatever        *)
(* operations run: both scores stay within 0..G; a decrement of a score    *)
(* at 0 and an increment of a score at G change neither score, and the     *)
(* latter saves nothing; an increment that brings a side to G calls        *)
(* SaveGame with the scores reached and, when the save succeeds, leaves    *)
(* both scores at 0 (when it fails, as they were reached).                 *)
(***************************************************************************)
C38_ScoreBounds ==
    /\ [](gameScore > 0 /\ ctWins \in 0..gameScore /\ tWins \in 0..gameScore)
    /\ [][/\ ev'.op = "DecrementCT" /\ ctWins = 0 => UNCHANGED <<ctWins, tWins>>
          /\ ev'.op = "DecrementT" /\ tWins = 0 => UNCHANGED <<ctWins, tWins>>
          /\ ev'.op = "IncrementCT" /\ ctWins = gameScore =>
                 UNCHANGED <<ctWins, tWins>> /\ save' = <<>>
          /\ ev'.op = "IncrementT" /\ tWins = gameScore =>
                 UNCHANGED <<ctWins, tWins>> /\ save' = <<>>
          /\ ev'.op = "IncrementCT" /\ ctWins + 1 = gameScore =>
                 \/ save' = SaveOf(gameScore, tWins, TRUE) /\ ctWins' = 0 /\ tWins' = 0
                 \/ /\ save' = SaveOf(gameScore, tWins, FALSE)
                    /\ ctWins' = gameScore
                    /\ tWins' = tWins
          /\ ev'.op = "IncrementT" /\ tWins + 1 = gameScore =>
                 \/ save' = SaveOf(ctWins, gameScore, TRUE) /\ ctWins' = 0 /\ tWins' = 0
                 \/ /\ save' = SaveOf(ctWins, gameScore, FALSE)
                    /\ ctWins' = ctWins
                    /\ tWins' = gameScore]_vars

\* with game score 2 and the CT side chosen, IncrementCT at 1:1 has saved
\* the game 2:1 and both scores are 0 again
C38_Witness ==
    /\ ev.op = "IncrementCT"
    /\ save = <<[ctWins |-> 2, tWins |-> 1, gameScore |-> 2, team |-> TeamCT, ok |-> TRUE]>>
    /\ ctWins = 0
    /\ tWins = 0

====
